---------------------------- MODULE Spec2Model ----------------------------
(***************************************************************************)
(* Model of the framework and package detection engine of AppDetector      *)
(* (android/app/src/main/java/com/appdetector/DetectorModule.kt).          *)
(*                                                                         *)
(* Entry names and entry contents are strings; the regular expressions of  *)
(* the module are matched character by character.  The archive files live  *)
(* on a fixed Disk (path -> archive); the installed applications and the   *)
(* arguments of the React methods are chosen nondeterministically.         *)
(***************************************************************************)
EXTENDS Integers, Sequences, FiniteSets, TLC

(***************************************************************************)
(* Bounds of the model.                                                    *)
(***************************************************************************)
\* largest number of split archives of the application under analysis
MaxSplits == 1
\* largest number of installed applications
MaxApps == 2

(***************************************************************************)
(* Strings (kotlin.String).                                                *)
(***************************************************************************)
CharAt(s, i) == SubSeq(s, i, i)

endsWith(s, suffix) ==
    /\ Len(s) >= Len(suffix)
    /\ SubSeq(s, Len(s) - Len(suffix) + 1, Len(s)) = suffix

startsWith(s, prefix) ==
    /\ Len(s) >= Len(prefix)
    /\ SubSeq(s, 1, Len(prefix)) = prefix

\* s.substringAfterLast('/'): the whole string when it has no '/'
substringAfterLast(s, c) ==
    LET at == {i \in 1..Len(s) : CharAt(s, i) = c}
    IN  IF at = {} THEN s
        ELSE LET last == CHOOSE i \in at : \A j \in at : j <= i
             IN  SubSeq(s, last + 1, Len(s))

(***************************************************************************)
(* Regular expressions (kotlin.text.Regex).  Every pattern of the module   *)
(* is a concatenation of literals, one-of-a-set characters and captured    *)
(* greedy runs  ([class]+) ; after each run the pattern continues with a   *)
(* character outside the run's class (or ends), so the longest run is the  *)
(* only one a backtracking matcher can accept.                             *)
(***************************************************************************)
WordChars ==
    {"a","b","c","d","e","f","g","h","i","j","k","l","m","n","o","p","q","r",
     "s","t","u","v","w","x","y","z","A","B","C","D","E","F","G","H","I","J",
     "K","L","M","N","O","P","Q","R","S","T","U","V","W","X","Y","Z","0","1",
     "2","3","4","5","6","7","8","9","_","-"}

Quotes == {"'", "\""}

\* [a-zA-Z0-9_\-]   [^/]   [^'"]
InClass(cls, c) ==
    CASE cls = "word"     -> c \in WordChars
      [] cls = "nonslash" -> c # "/"
      [] cls = "nonquote" -> c \notin Quotes

Lit(s)   == [k |-> "lit", s |-> s]
OneOf(S) == [k |-> "one", cs |-> S]
Run(cls) == [k |-> "run", cls |-> cls]

\* the position after the longest run of class characters starting at i
RunEnd(s, i, cls) ==
    LET stops == {j \in i..Len(s) : ~InClass(cls, CharAt(s, j))}
    IN  IF stops = {} THEN Len(s) + 1
        ELSE CHOOSE j \in stops : \A k \in stops : j <= k

\* match items n.. of pat at position i of s; groups are the captured runs
RECURSIVE MatchFrom(_, _, _, _, _)
MatchFrom(s, i, pat, n, groups) ==
    IF n > Len(pat) THEN [ok |-> TRUE, end |-> i, groups |-> groups]
    ELSE LET it == pat[n] IN
         CASE it.k = "lit" ->
                IF i + Len(it.s) - 1 <= Len(s)
                   /\ SubSeq(s, i, i + Len(it.s) - 1) = it.s
                THEN MatchFrom(s, i + Len(it.s), pat, n + 1, groups)
                ELSE [ok |-> FALSE, end |-> i, groups |-> << >>]
           [] it.k = "one" ->
                IF i <= Len(s) /\ CharAt(s, i) \in it.cs
                THEN MatchFrom(s, i + 1, pat, n + 1, groups)
                ELSE [ok |-> FALSE, end |-> i, groups |-> << >>]
           [] it.k = "run" ->
                LET e == RunEnd(s, i, it.cls)
                IN  IF e > i
                    THEN MatchFrom(s, e, pat, n + 1,
                                   Append(groups, SubSeq(s, i, e - 1)))
                    ELSE [ok |-> FALSE, end |-> i, groups |-> << >>]

MatchAt(s, i, pat) == MatchFrom(s, i, pat, 1, << >>)

\* Regex.findAll(input): the groups of the successive non-overlapping
\* matches, leftmost first; starts are the positions where the pattern matches
RECURSIVE FindAllFrom(_, _, _, _)
FindAllFrom(s, i, pat, starts) ==
    LET next == {j \in starts : j >= i}
    IN  IF next = {} THEN << >>
        ELSE LET j == CHOOSE j \in next : \A k \in next : j <= k
                 m == MatchAt(s, j, pat)
             IN  << m.groups >> \o FindAllFrom(s, m.end, pat, starts)

findAll(s, pat) ==
    FindAllFrom(s, 1, pat, {j \in 1..Len(s) : MatchAt(s, j, pat).ok})

\* Regex.find(input): the groups of the first match, as a sequence of at
\* most one element (empty: null)
find(s, pat) ==
    LET all == findAll(s, pat)
    IN  IF all = << >> THEN << >> ELSE << all[1] >>

assetRegex         == << Lit("assets/packages/"), Run("nonslash"), Lit("/") >>
flutterAssetsRegex == << Lit("flutter_assets/packages/"), Run("nonslash"), Lit("/") >>
\* the pattern without the directory of the ABI
libRegexWithoutAbi == << Lit("lib/lib"), Run("word"), Lit(".so") >>
libRegex           == << Lit("lib/"), Run("nonslash"), Lit("/lib"), Run("word"), Lit(".so") >>
metaInfRegex       == << Lit("META-INF/"), Run("word"), Lit(".SF") >>
packagePattern     == << Lit("package:"), Run("word"), Lit("/") >>
requireRegex       == << Lit("require("), OneOf(Quotes), Run("nonquote"), OneOf(Quotes), Lit(")") >>
importRegex        == << Lit("from "), OneOf(Quotes), Run("nonquote"), OneOf(Quotes) >>
metroDefineRegex   == << Lit("__d("), OneOf(Quotes), Run("nonquote"), OneOf(Quotes) >>
atScopedRegex      == << Lit("@"), Run("word"), Lit("/"), Run("word") >>

snapshotFileNames == {"libapp.so", "app.dill", "kernel_blob.bin"}

(***************************************************************************)
(* Insertion-ordered collections (mutableSetOf = LinkedHashSet,            *)
(* mutableMapOf = LinkedHashMap): sequences without repeated elements /    *)
(* keys.                                                                   *)
(***************************************************************************)
Range(q) == {q[i] : i \in DOMAIN q}

\* a list in place of a set: add keeps duplicates
SetAddKeepsDuplicates(q, x) == Append(q, x)

\* MutableSet.add
SetAdd(q, x) == IF x \in Range(q) THEN q ELSE Append(q, x)

RECURSIVE SetAddAll(_, _)
SetAddAll(q, xs) ==
    IF xs = << >> THEN q ELSE SetAddAll(SetAdd(q, Head(xs)), Tail(xs))

\* a nullable String: << >> is null, << v >> is the string v
NULL == << >>
Some(v) == << v >>

Keys(m) == {m[i].key : i \in DOMAIN m}

containsKey(m, k) == k \in Keys(m)

\* putIfAbsent in place of set: the first value of a key stays
MapPutIfAbsent(m, k, v) ==
    IF k \in {m[i].key : i \in DOMAIN m} THEN m
    ELSE Append(m, [key |-> k, value |-> v])

\* a set that never replaces a version by null
MapPutKeepsVersion(m, k, v) ==
    IF k \in {m[i].key : i \in DOMAIN m}
    THEN [i \in DOMAIN m |->
             IF m[i].key = k /\ v # << >> THEN [key |-> k, value |-> v] ELSE m[i]]
    ELSE Append(m, [key |-> k, value |-> v])

\* MutableMap.set: an existing key keeps its position and takes the value
MapPut(m, k, v) ==
    IF containsKey(m, k)
    THEN [i \in DOMAIN m |-> IF m[i].key = k THEN [key |-> k, value |-> v] ELSE m[i]]
    ELSE Append(m, [key |-> k, value |-> v])

MapGet(m, k) == m[CHOOSE i \in DOMAIN m : m[i].key = k].value


(***************************************************************************)
(* Archives (java.util.zip.ZipFile) and their entries.                     *)
(*                                                                         *)
(* An archive either opens or ZipFile(path) throws.  An entry has a name,  *)
(* a content read as text, and may fail to be read (getInputStream or      *)
(* readText throws).  The entry assets/pubspec.lock also carries the value *)
(* org.yaml.snakeyaml.Yaml().load returns for its content:                 *)
(*   kind  "error"  : load throws (not YAML)                               *)
(*         "scalar" : the document is null or not a mapping                *)
(*         "map"    : a mapping; pkind is the kind of its "packages" value *)
(*                    ("absent", "scalar" or "map") and items the entries  *)
(*                    of that mapping in document order, each value either *)
(*                    a mapping with an optional version or not a mapping. *)
(***************************************************************************)
NoYaml == [kind |-> "error", pkind |-> "absent", items |-> << >>]

YamlScalar == [kind |-> "scalar", pkind |-> "absent", items |-> << >>]

YamlNoPackages == [kind |-> "map", pkind |-> "absent", items |-> << >>]

YamlPackages(items) == [kind |-> "map", pkind |-> "map", items |-> items]

\* name: { version: v }   /   name: {}   /   name: <not a mapping>
Pkg(name, v)    == [name |-> name, isMap |-> TRUE, version |-> Some(v)]
PkgNoVersion(name) == [name |-> name, isMap |-> TRUE, version |-> NULL]
PkgScalar(name) == [name |-> name, isMap |-> FALSE, version |-> NULL]

File(name, text) == [name |-> name, text |-> text, readable |-> TRUE, yaml |-> NoYaml]

Unreadable(name) == [name |-> name, text |-> "", readable |-> FALSE, yaml |-> NoYaml]

Lockfile(text, yaml) ==
    [name |-> "assets/pubspec.lock", text |-> text, readable |-> TRUE, yaml |-> yaml]

Zip(entries) == [zip |-> TRUE, entries |-> entries]

NotAZip == [zip |-> FALSE, entries |-> << >>]

\* the archive files of the device, by path
Disk ==
    [ bad |-> NotAZip,
      sig |-> Zip(<< File("libflutter.so", "ELF") >>),
      c5 |-> Zip(<< Lockfile("packages: foo: version: \"1.2.3\"",
                             YamlPackages(<< Pkg("foo", "1.2.3") >>)),
                    File("assets/packages/foo/x.png", "PNG"),
                    File("assets/packages/bar/y.png", "PNG") >>),
      flutter |-> Zip(<< File("lib/arm64-v8a/libflutter.so", "ELF"),
                         Unreadable("assets/blob.bin"),
                         File("lib/arm64-v8a/libapp.so",
                              "ELF package:http/http.dart package:foo/a.dart"),
                         File("lib/arm64-v8a/libbaz.so", "ELF"),
                         File("META-INF/baz.SF", "Signature-Version: 1.0"),
                         File("flutter_assets/packages/qux/a.txt",
                              "import 'package:bar/bar.dart';"),
                         Lockfile("packages: foo: {} http: version: 0.13.6",
                                  YamlPackages(<< PkgNoVersion("foo"),
                                                  Pkg("http", "0.13.6") >>)) >>),
      lock2 |-> Zip(<< Unreadable("lib/x86/libapp.so"),
                       File("lib/x86/libflutter.so", "ELF"),
                       Lockfile("packages: foo: version: 2.0.0 bar: version: 1.0.0",
                                YamlPackages(<< Pkg("foo", "2.0.0"),
                                                Pkg("bar", "1.0.0") >>)) >>),
      lockbad |-> Zip(<< Lockfile("packages: [foo", NoYaml),
                         File("assets/packages/bar/y.png", "PNG"),
                         File("lib/x86/libbaz.so", "ELF") >>),
      lockpart |-> Zip(<< Lockfile("packages: foo: version: 9.9.9 bar: oops qux: version: 3.0.0",
                                   YamlPackages(<< Pkg("foo", "9.9.9"),
                                                   PkgScalar("bar"),
                                                   Pkg("qux", "3.0.0") >>)),
                          File("META-INF/qux.SF", "Signature-Version: 1.0") >>),
      locknopk |-> Zip(<< Lockfile("sdks: dart: 3.0.0", YamlNoPackages),
                          File("assets/packages/bar/y.png", "PNG") >>),
      rn |-> Zip(<< File("assets/index.android.bundle",
                         "__d('moment',function(){var a=require('../x/@scope/pkg');"
                         \o "import n from \"@react-navigation/native\";"
                         \o "var b=require(\"react-native-screens\");var c=require('lodash');"
                         \o "import l from './local';import m from '/abs';});"),
                    File("lib/arm64-v8a/libreactnativejni.so", "ELF"),
                    File("lib/arm64-v8a/libbaz.so", "ELF"),
                    File("META-INF/baz.SF", "Signature-Version: 1.0") >>),
      c12 |-> Zip(<< File("assets/index.android.bundle",
                          "require('./local');require('react-native-gesture-handler');"
                          \o "require('lodash');") >>),
      rnbad |-> Zip(<< Unreadable("assets/index.android.bundle"),
                       File("lib/x86/libhermes.so", "ELF"),
                       File("META-INF/CERT.SF", "Signature-Version: 1.0") >>),
      both |-> Zip(<< File("lib/arm/libflutter.so", "ELF"),
                      File("assets/index.android.bundle", "var a=require(\"axios\");") >>),
      rnlib |-> Zip(<< File("lib/x86/libreactnativejni.so", "ELF"),
                       File("lib/x86/libreact-native-screens.so", "ELF"),
                       File("META-INF/qux.SF", "Signature-Version: 1.0") >>) ]

Paths == DOMAIN Disk

\* zip.entries().asSequence().map { it.name }.toList()
entryNames(archive) == [i \in DOMAIN archive.entries |-> archive.entries[i].name]

\* zip.getEntry(name): a sequence of at most one entry (empty: null)
getEntry(archive, name) ==
    SelectSeq(archive.entries, LAMBDA e : e.name = name)

\* the React Native check made before the Flutter check
SignatureReactNativeFirst(archive) ==
    LET entries == entryNames(archive)
    IN  IF \E i \in DOMAIN entries :
              \/ endsWith(entries[i], "libreactnativejni.so")
              \/ endsWith(entries[i], "index.android.bundle")
        THEN "React Native"
        ELSE IF \E i \in DOMAIN entries : endsWith(entries[i], "libflutter.so")
        THEN "Flutter"
        ELSE ""

(***************************************************************************)
(* detectFramework, the body of the use block for one opened archive: the  *)
(* label it returns, or "" when it falls through to the next archive.      *)
(***************************************************************************)
Signature(archive) ==
    LET entries == entryNames(archive)
    IN  IF \E i \in DOMAIN entries : endsWith(entries[i], "libflutter.so")
        THEN "Flutter"
        ELSE IF \E i \in DOMAIN entries :
                   \/ endsWith(entries[i], "libreactnativejni.so")
                   \/ endsWith(entries[i], "index.android.bundle")
        THEN "React Native"
        ELSE ""

(***************************************************************************)
(* extractFlutterPackages, heuristic 1 on one opened archive: the writes   *)
(* result[name] = version it performs, in order, and whether it ends by    *)
(* throwing.                                                               *)
(***************************************************************************)
RECURSIVE LockfileItems(_)
LockfileItems(items) ==
    IF items = << >> THEN [writes |-> << >>, threw |-> FALSE]
    ELSE IF ~Head(items).isMap
    THEN \* info["version"] on a value that is no Map
         [writes |-> << >>, threw |-> TRUE]
    ELSE LET rest == LockfileItems(Tail(items))
         IN  [writes |-> << [key |-> Head(items).name,
                             value |-> Head(items).version] >> \o rest.writes,
              threw |-> rest.threw]

pubspecLock(archive) ==
    LET entry == getEntry(archive, "assets/pubspec.lock")
    IN  IF entry = << >> THEN [writes |-> << >>, threw |-> FALSE]
        ELSE IF ~entry[1].readable THEN [writes |-> << >>, threw |-> TRUE]
        ELSE IF entry[1].yaml.kind # "map" THEN [writes |-> << >>, threw |-> TRUE]
        ELSE IF entry[1].yaml.pkind # "map" THEN [writes |-> << >>, threw |-> FALSE]
        ELSE LockfileItems(entry[1].yaml.items)

RECURSIVE MapPutAll(_, _)
MapPutAll(m, writes) ==
    IF writes = << >> THEN m
    ELSE MapPutAll(MapPut(m, Head(writes).key, Head(writes).value), Tail(writes))

(***************************************************************************)
(* extractFlutterPackages, heuristics 2 to 7 on the entries of one opened  *)
(* archive, accumulating into the six name-only sets.                      *)
(***************************************************************************)
NoNames ==
    [assetPackages |-> << >>, flutterAssetsPackages |-> << >>,
     libPackages |-> << >>, metaInfPackages |-> << >>,
     snapshotPackages |-> << >>, assetContentPackages |-> << >>]

\* groupValues[n] of every match
Group(matches, n) == [i \in DOMAIN matches |-> matches[i][n]]

\* the package:<name>/ names of the content of an entry; reading may throw,
\* which the heuristic catches
contentPackages(e) ==
    IF e.readable THEN Group(findAll(e.text, packagePattern), 1) ELSE << >>

scanEntry(sets, e) ==
    LET assetPath == e.name
        fileName  == substringAfterLast(assetPath, "/")
    IN  [assetPackages |->
            SetAddAll(sets.assetPackages, Group(find(assetPath, assetRegex), 1)),
         flutterAssetsPackages |->
            SetAddAll(sets.flutterAssetsPackages,
                      Group(find(assetPath, flutterAssetsRegex), 1)),
         libPackages |->
            SetAddAll(sets.libPackages, Group(find(assetPath, libRegex), 2)),
         metaInfPackages |->
            SetAddAll(sets.metaInfPackages, Group(find(assetPath, metaInfRegex), 1)),
         snapshotPackages |->
            IF fileName \in snapshotFileNames
            THEN SetAddAll(sets.snapshotPackages, contentPackages(e))
            ELSE sets.snapshotPackages,
         assetContentPackages |->
            IF startsWith(assetPath, "assets/") \/ startsWith(assetPath, "flutter_assets/")
            THEN SetAddAll(sets.assetContentPackages, contentPackages(e))
            ELSE sets.assetContentPackages]

\* heuristics 6 and 7 without their try: the exception of an entry that
\* cannot be read ends the scan of the archive
RECURSIVE scanEntriesStopsAtUnreadable(_, _)
scanEntriesStopsAtUnreadable(sets, entries) ==
    IF entries = << >> THEN sets
    ELSE IF /\ ~Head(entries).readable
            /\ \/ substringAfterLast(Head(entries).name, "/") \in snapshotFileNames
               \/ startsWith(Head(entries).name, "assets/")
               \/ startsWith(Head(entries).name, "flutter_assets/")
         THEN scanEntry(sets, Head(entries))
         ELSE scanEntriesStopsAtUnreadable(scanEntry(sets, Head(entries)), Tail(entries))

RECURSIVE scanEntries(_, _)
scanEntries(sets, entries) ==
    IF entries = << >> THEN sets
    ELSE scanEntries(scanEntry(sets, Head(entries)), Tail(entries))

\* accumulate the observations of one archive into the sets of the extractor
addNames(sets, obs) ==
    [f \in DOMAIN sets |-> SetAddAll(sets[f], obs[f])]

(***************************************************************************)
(* extractFlutterPackages, the merge after the loop.                       *)
(***************************************************************************)
\* the six sets added up in another order, the libraries first
allPackagesLibrariesFirst(sets) ==
    SetAddAll(SetAddAll(SetAddAll(SetAddAll(SetAddAll(
        sets.libPackages, sets.assetPackages), sets.flutterAssetsPackages),
        sets.metaInfPackages), sets.snapshotPackages), sets.assetContentPackages)

allPackages(sets) ==
    SetAddAll(SetAddAll(SetAddAll(SetAddAll(SetAddAll(
        sets.assetPackages, sets.flutterAssetsPackages), sets.libPackages),
        sets.metaInfPackages), sets.snapshotPackages), sets.assetContentPackages)

\* the merge without its containsKey test
RECURSIVE mergeNamesOverwrites(_, _)
mergeNamesOverwrites(result, pkgs) ==
    IF pkgs = << >> THEN result
    ELSE mergeNamesOverwrites(MapPut(result, Head(pkgs), NULL), Tail(pkgs))

RECURSIVE mergeNames(_, _)
mergeNames(result, pkgs) ==
    IF pkgs = << >> THEN result
    ELSE mergeNames(IF ~containsKey(result, Head(pkgs))
                    THEN MapPut(result, Head(pkgs), NULL)
                    ELSE result,
                    Tail(pkgs))

(***************************************************************************)
(* extractReactNativePackages on one opened archive.                       *)
(***************************************************************************)
\* the filter without its react-native prefix
excludedLocalOnly(name) ==
    \/ startsWith(name, "./")
    \/ startsWith(name, "../")
    \/ startsWith(name, "/")

excluded(name) ==
    \/ startsWith(name, "./")
    \/ startsWith(name, "../")
    \/ startsWith(name, "/")
    \/ startsWith(name, "react-native")

\* the names a filtered scan adds, in match order
filtered(matches) == SelectSeq(Group(matches, 1), LAMBDA name : ~excluded(name))

\* the bundle scans without the fourth one, the scan for @<org>/<name>
bundleNamesWithoutScopedScan(archive) ==
    LET entry == getEntry(archive, "assets/index.android.bundle")
    IN  IF entry = << >> THEN [names |-> << >>, threw |-> FALSE]
        ELSE IF ~entry[1].readable THEN [names |-> << >>, threw |-> TRUE]
        ELSE LET input == entry[1].text
             IN  [names |->
                     filtered(findAll(input, requireRegex))
                     \o filtered(findAll(input, importRegex))
                     \o filtered(findAll(input, metroDefineRegex)),
                  threw |-> FALSE]

\* the names the four scans of the bundle add, in order, and whether reading
\* the bundle throws
bundleNames(archive) ==
    LET entry == getEntry(archive, "assets/index.android.bundle")
    IN  IF entry = << >> THEN [names |-> << >>, threw |-> FALSE]
        ELSE IF ~entry[1].readable THEN [names |-> << >>, threw |-> TRUE]
        ELSE LET input == entry[1].text
                 at    == findAll(input, atScopedRegex)
             IN  [names |->
                     filtered(findAll(input, requireRegex))
                     \o filtered(findAll(input, importRegex))
                     \o filtered(findAll(input, metroDefineRegex))
                     \o [i \in DOMAIN at |-> "@" \o at[i][1] \o "/" \o at[i][2]],
                  threw |-> FALSE]

RECURSIVE nativeNames(_)
nativeNames(entries) ==
    IF entries = << >> THEN << >>
    ELSE Group(find(Head(entries), libRegex), 2)
         \o Group(find(Head(entries), metaInfRegex), 1)
         \o nativeNames(Tail(entries))

(***************************************************************************)
(* The heuristics of every archive of the Disk, evaluated once.            *)
(***************************************************************************)
SignatureOf   == [p \in Paths |-> Signature(Disk[p])]
pubspecLockOf == [p \in Paths |-> pubspecLock(Disk[p])]
scanEntriesOf == [p \in Paths |-> scanEntries(NoNames, Disk[p].entries)]
bundleNamesOf == [p \in Paths |-> bundleNames(Disk[p])]
nativeNamesOf == [p \in Paths |-> nativeNames(entryNames(Disk[p]))]

(***************************************************************************)
(* The device: the installed applications (PackageManager).                *)
(***************************************************************************)
\* the sequences over S of length at most n
RECURSIVE SeqsUpTo(_, _)
SeqsUpTo(S, n) ==
    IF n = 0 THEN {<< >>}
    ELSE LET shorter == SeqsUpTo(S, n - 1)
         IN  shorter \cup {Append(q, x) : q \in {r \in shorter : Len(r) = n - 1}, x \in S}

AppNames == << "com.a", "com.b", "com.c", "com.d" >>

\* an ApplicationInfo without its packageName: the base archive, the split
\* archives (none: splitSourceDirs is null) and the kind of its icon drawable
\* (the applications with split archives are the ones with an adaptive icon)
AppChoices ==
    {[sourceDir |-> b, splitSourceDirs |-> sp,
      drawable |-> IF sp = << >> THEN "bitmap" ELSE "adaptive"] :
        b \in Paths, sp \in SeqsUpTo(Paths, MaxSplits)}

\* the applications installed next to the first one
OtherApps ==
    {[sourceDir |-> "bad", splitSourceDirs |-> << >>, drawable |-> "other"],
     [sourceDir |-> "rn", splitSourceDirs |-> << >>, drawable |-> "throws"]}

Devices ==
    {<< a >> \o rest : a \in AppChoices,
                       rest \in SeqsUpTo(OtherApps, MaxApps - 1)}

\* apkPaths of detectFramework and of the two extractors
apkPathsOf(info) == << info.sourceDir >> \o info.splitSourceDirs

\* the data URI prefix also when there are no bytes to encode
drawableToBase64AlwaysPrefixed(drawable) ==
    CASE drawable = "bitmap"   -> "data:image/png;base64,bitmap"
      [] drawable = "adaptive" -> "data:image/png;base64,adaptive"
      [] drawable = "other"    -> "data:image/png;base64,"
      [] drawable = "throws"   -> "data:image/png;base64,"

drawableToBase64(drawable) ==
    CASE drawable = "bitmap"   -> "data:image/png;base64,bitmap"
      [] drawable = "adaptive" -> "data:image/png;base64,adaptive"
      [] drawable = "other"    -> ""
      [] drawable = "throws"   -> ""

(***************************************************************************)
(* State.                                                                  *)
(***************************************************************************)
VARIABLES
    installed,   \* pm.getInstalledApplications: the ApplicationInfo records
    pc,          \* the statement the module thread is at
    caller,      \* the React method that is running ("" when idle)
    promise,     \* the promise of the last React method invoked
    apps,        \* getInstalledApps: the array of application maps
    app,         \* the index in installed of the application handled
    framework,   \* the value detectFramework returned
    apkPaths,    \* the archive paths of the loop that is running
    pathIdx,     \* the index in apkPaths of the loop that is running
    zip,         \* the open ZipFile: << >> or << path >>
    result,      \* extractFlutterPackages: name -> version?, in insertion order
    sets,        \* extractFlutterPackages: the six name-only sets
    rnResult,    \* extractReactNativePackages: the set of names
    hist,        \* history: an earlier resolved call, and the label the
                 \* running or last getAppPackages call dispatched on
    ui           \* the JavaScript side: the state of the two screens and
                 \* the bridge calls waiting for their promise to settle

vars == << installed, pc, caller, promise, apps, app, framework, apkPaths,
           pathIdx, zip, result, sets, rnResult, hist, ui >>

\* a DetectedPackage of models/DetectedPackage.ts
DetectedPackage(name, version) == [name |-> name, version |-> version]

\* the screens before the navigator has rendered any of them: the values
\* are the initial values of the useState calls
NoView ==
    [list    |-> [mounted |-> FALSE, apps |-> << >>, loading |-> TRUE,
                  refreshing |-> FALSE],
     detail  |-> [mounted |-> FALSE, app |-> "", packages |-> << >>,
                  loading |-> TRUE, refreshing |-> FALSE],
     calls   |-> << >>,
     settled |-> [origin |-> "", outcome |-> "", live |-> FALSE]]

NoPromise == [method |-> "", arg |-> "", state |-> "none", value |-> << >>]

\* no call remembered
NoCall == [method |-> "", arg |-> "", value |-> << >>, label |-> ""]

\* the module after construction: no method is running
Constructed ==
    /\ pc = "idle"
    /\ caller = ""
    /\ promise = NoPromise
    /\ apps = << >>
    /\ app = 0
    /\ framework = ""
    /\ apkPaths = << >>
    /\ pathIdx = 0
    /\ zip = << >>
    /\ result = << >>
    /\ sets = NoNames
    /\ rnResult = << >>

Init ==
    /\ installed \in Devices
    /\ Constructed
    /\ ui = NoView
    /\ hist = [track |-> FALSE, label |-> "", last |-> NoCall]

\* the same module on a device with one application, with the history of
\* the resolved calls kept
InitHistory ==
    /\ installed \in {device \in Devices : Len(device) = 1}
    /\ Constructed
    /\ ui = NoView
    /\ hist = [track |-> TRUE, label |-> "", last |-> NoCall]

\* the same module on a device with two applications, with the history of
\* the resolved calls kept
InitTwoApps ==
    /\ installed \in {device \in Devices : Len(device) = 2}
    /\ Constructed
    /\ ui = NoView
    /\ hist = [track |-> TRUE, label |-> "", last |-> NoCall]

\* a method is invoked: the promise of the call before it, when resolved,
\* is remembered or not
Remember ==
    hist' \in {[hist EXCEPT !.label = ""]}
              \cup (IF hist.track /\ promise.state = "resolved"
                    THEN {[hist EXCEPT !.label = "",
                                       !.last = [method |-> promise.method,
                                                 arg    |-> promise.arg,
                                                 value  |-> promise.value,
                                                 label  |-> hist.label]]}
                    ELSE {})

packageNameOf(i) == AppNames[i]

\* the values the extractors leave untouched while they do not run
extractorIdle == UNCHANGED << result, sets, rnResult >>

(***************************************************************************)
(* getInstalledApps                                                        *)
(***************************************************************************)
InvokeGetInstalledApps ==
    /\ pc = "idle"
    /\ pc' = "gia_loop"
    /\ caller' = "getInstalledApps"
    /\ promise' = [method |-> "getInstalledApps", arg |-> "",
                   state |-> "pending", value |-> << >>]
    /\ apps' = << >>
    /\ app' = 1
    /\ UNCHANGED << ui, installed, framework, apkPaths, pathIdx, zip >>
    /\ extractorIdle
    /\ Remember

\* the loop body up to the call of detectFramework(app)
GiaDetect ==
    /\ pc = "gia_loop"
    /\ app <= Len(installed)
    /\ apkPaths' = apkPathsOf(installed[app])
    /\ pathIdx' = 1
    /\ pc' = "df_open"
    /\ UNCHANGED << ui, installed, caller, promise, apps, app, framework, zip, hist >>
    /\ extractorIdle

\* a list that leaves out the applications without a label
GiaPushSkipsUnknown ==
    /\ pc = "gia_push"
    /\ apps' = IF framework = "Unknown" THEN apps
               ELSE Append(apps,
                      [packageName |-> packageNameOf(app),
                       appName     |-> packageNameOf(app),
                       icon        |-> drawableToBase64(installed[app].drawable),
                       framework   |-> framework,
                       packages    |-> << >>])
    /\ app' = app + 1
    /\ framework' = ""
    /\ pc' = "gia_loop"
    /\ UNCHANGED << ui, installed, caller, promise, apkPaths, pathIdx, zip, hist >>
    /\ extractorIdle

\* the rest of the loop body, after detectFramework returned
GiaPush ==
    /\ pc = "gia_push"
    /\ apps' = Append(apps,
                 [packageName |-> packageNameOf(app),
                  appName     |-> packageNameOf(app),
                  icon        |-> drawableToBase64(installed[app].drawable),
                  framework   |-> framework,
                  packages    |-> << >>])
    /\ app' = app + 1
    /\ framework' = ""
    /\ pc' = "gia_loop"
    /\ UNCHANGED << ui, installed, caller, promise, apkPaths, pathIdx, zip, hist >>
    /\ extractorIdle

GiaResolve ==
    /\ pc = "gia_loop"
    /\ app > Len(installed)
    /\ promise' = [promise EXCEPT !.state = "resolved", !.value = apps]
    /\ pc' = "idle"
    /\ caller' = ""
    /\ apps' = << >>
    /\ app' = 0
    /\ UNCHANGED << ui, installed, framework, apkPaths, pathIdx, zip, hist >>
    /\ extractorIdle

(***************************************************************************)
(* detectFramework                                                         *)
(***************************************************************************)
\* the label handed to the when of getAppPackages whoever called
DfReturnToWhen(label) ==
    /\ framework' = label
    /\ pc' = "gap_when"
    /\ apkPaths' = << >>
    /\ pathIdx' = 0
    /\ zip' = << >>
    /\ hist' = IF caller = "getAppPackages" THEN [hist EXCEPT !.label = label] ELSE hist

\* return label to the caller
DfReturn(label) ==
    /\ framework' = label
    /\ pc' = IF caller = "getInstalledApps" THEN "gia_push" ELSE "gap_when"
    /\ apkPaths' = << >>
    /\ pathIdx' = 0
    /\ zip' = << >>
    /\ hist' = IF caller = "getAppPackages" THEN [hist EXCEPT !.label = label] ELSE hist

\* the try around the loop: the first archive that does not open ends the scan
DfOpenFailStops ==
    /\ pc = "df_open"
    /\ pathIdx <= Len(apkPaths)
    /\ ~Disk[apkPaths[pathIdx]].zip
    /\ DfReturn("Unknown")
    /\ UNCHANGED << ui, installed, caller, promise, apps, app >>
    /\ extractorIdle

\* no try at all: the exception reaches the catch of the React method
DfOpenFailEscapes ==
    /\ pc = "df_open"
    /\ pathIdx <= Len(apkPaths)
    /\ ~Disk[apkPaths[pathIdx]].zip
    /\ promise' = [promise EXCEPT !.state = "rejected"]
    /\ pc' = "idle"
    /\ caller' = ""
    /\ apps' = << >>
    /\ app' = 0
    /\ apkPaths' = << >>
    /\ pathIdx' = 0
    /\ UNCHANGED << ui, installed, framework, zip, hist >>
    /\ extractorIdle

DfOpenOk ==
    /\ pc = "df_open"
    /\ pathIdx <= Len(apkPaths)
    /\ Disk[apkPaths[pathIdx]].zip
    /\ zip' = << apkPaths[pathIdx] >>
    /\ pc' = "df_scan"
    /\ UNCHANGED << ui, installed, caller, promise, apps, app, framework, apkPaths, pathIdx, hist >>
    /\ extractorIdle

\* ZipFile(apkPath) throws: logged, next archive
DfOpenFail ==
    /\ pc = "df_open"
    /\ pathIdx <= Len(apkPaths)
    /\ ~Disk[apkPaths[pathIdx]].zip
    /\ pathIdx' = pathIdx + 1
    /\ UNCHANGED << ui, installed, pc, caller, promise, apps, app, framework, apkPaths, zip, hist >>
    /\ extractorIdle

\* a scan that remembers the label and goes on to the next archive
DfMatchGoesOn ==
    /\ pc = "df_scan"
    /\ SignatureOf[zip[1]] # ""
    /\ framework' = SignatureOf[zip[1]]
    /\ zip' = << >>
    /\ pathIdx' = pathIdx + 1
    /\ pc' = "df_open"
    /\ UNCHANGED << ui, installed, caller, promise, apps, app, apkPaths, hist >>
    /\ extractorIdle

DfMatch ==
    /\ pc = "df_scan"
    /\ SignatureOf[zip[1]] # ""
    /\ DfReturn(SignatureOf[zip[1]])
    /\ UNCHANGED << ui, installed, caller, promise, apps, app >>
    /\ extractorIdle

DfNoMatch ==
    /\ pc = "df_scan"
    /\ SignatureOf[zip[1]] = ""
    /\ zip' = << >>
    /\ pathIdx' = pathIdx + 1
    /\ pc' = "df_open"
    /\ UNCHANGED << ui, installed, caller, promise, apps, app, framework, apkPaths, hist >>
    /\ extractorIdle

\* the loop ends without a label to return
DfUnknownWithoutLabel ==
    /\ pc = "df_open"
    /\ pathIdx > Len(apkPaths)
    /\ DfReturn("")
    /\ UNCHANGED << ui, installed, caller, promise, apps, app >>
    /\ extractorIdle

DfUnknown ==
    /\ pc = "df_open"
    /\ pathIdx > Len(apkPaths)
    /\ DfReturn("Unknown")
    /\ UNCHANGED << ui, installed, caller, promise, apps, app >>
    /\ extractorIdle

(***************************************************************************)
(* getAppPackages                                                          *)
(***************************************************************************)
\* the package names getAppPackages is called with
Requested == {AppNames[i] : i \in DOMAIN installed} \cup {"com.missing"}

\* pm.getApplicationInfo(packageName): the index of the application
lookup(packageName) ==
    {i \in DOMAIN installed : packageNameOf(i) = packageName}

\* the application is installed: detectFramework(app) is called
InvokeGetAppPackages ==
    /\ pc = "idle"
    /\ \E packageName \in Requested :
          /\ lookup(packageName) # {}
          /\ app' = CHOOSE i \in lookup(packageName) : TRUE
          /\ promise' = [method |-> "getAppPackages", arg |-> packageName,
                         state |-> "pending", value |-> << >>]
    /\ caller' = "getAppPackages"
    /\ apkPaths' = apkPathsOf(installed[app'])
    /\ pathIdx' = 1
    /\ pc' = "df_open"
    /\ UNCHANGED << ui, installed, apps, framework, zip >>
    /\ extractorIdle
    /\ Remember

\* pm.getApplicationInfo throws NameNotFoundException: promise.reject
GapNotFound ==
    /\ pc = "idle"
    /\ \E packageName \in Requested :
          /\ lookup(packageName) = {}
          /\ promise' = [method |-> "getAppPackages", arg |-> packageName,
                         state |-> "rejected", value |-> << >>]
    /\ UNCHANGED << ui, installed, pc, caller, apps, app, framework, apkPaths, pathIdx, zip >>
    /\ extractorIdle
    /\ Remember

\* the map kept in a field of the module: the names of an earlier call are
\* still in it
GapFlutterKeepsMap ==
    /\ pc = "gap_when"
    /\ framework = "Flutter"
    /\ apkPaths' = apkPathsOf(installed[app])
    /\ pathIdx' = 1
    /\ result' = IF hist.last.label \in {"Flutter", "React Native"}
                 THEN [i \in DOMAIN hist.last.value |->
                          [key |-> hist.last.value[i].name, value |-> NULL]]
                 ELSE << >>
    /\ sets' = NoNames
    /\ pc' = "fl_open"
    /\ UNCHANGED << ui, installed, caller, promise, apps, app, framework, zip, rnResult, hist >>

\* when (framework) "Flutter" -> extractFlutterPackages(app)
GapFlutter ==
    /\ pc = "gap_when"
    /\ framework = "Flutter"
    /\ apkPaths' = apkPathsOf(installed[app])
    /\ pathIdx' = 1
    /\ result' = << >>
    /\ sets' = NoNames
    /\ pc' = "fl_open"
    /\ UNCHANGED << ui, installed, caller, promise, apps, app, framework, zip, rnResult, hist >>

\* a when whose second branch calls the extractor of the first
GapReactNativeRunsFlutter ==
    /\ pc = "gap_when"
    /\ framework = "React Native"
    /\ apkPaths' = apkPathsOf(installed[app])
    /\ pathIdx' = 1
    /\ result' = << >>
    /\ sets' = NoNames
    /\ pc' = "fl_open"
    /\ UNCHANGED << ui, installed, caller, promise, apps, app, framework, zip, rnResult, hist >>

\* when (framework) "React Native" -> extractReactNativePackages(app)
GapReactNative ==
    /\ pc = "gap_when"
    /\ framework = "React Native"
    /\ apkPaths' = apkPathsOf(installed[app])
    /\ pathIdx' = 1
    /\ rnResult' = << >>
    /\ pc' = "rn_open"
    /\ UNCHANGED << ui, installed, caller, promise, apps, app, framework, zip, result, sets, hist >>

\* promise.resolve(value): getAppPackages is over
GapResolve(value) ==
    /\ promise' = [promise EXCEPT !.state = "resolved", !.value = value]
    /\ pc' = "idle"
    /\ caller' = ""
    /\ app' = 0
    /\ framework' = ""
    /\ result' = << >>
    /\ sets' = NoNames
    /\ rnResult' = << >>
    /\ UNCHANGED << ui, installed, apps, apkPaths, pathIdx, zip, hist >>

\* when (framework): no branch for any other label
GapUnknown ==
    /\ pc = "gap_when"
    /\ framework \notin {"Flutter", "React Native"}
    /\ GapResolve(<< >>)

\* pkgs.forEach of the Flutter branch: name and version of every pair
flutterMaps(pkgs) ==
    [i \in DOMAIN pkgs |-> [name |-> pkgs[i].key, version |-> pkgs[i].value]]

\* the branch written like the Flutter one, with a version key
reactNativeMapsWithVersion(pkgs) ==
    [i \in DOMAIN pkgs |-> [name |-> pkgs[i], version |-> NULL]]

\* pkgs.forEach of the React Native branch: the name alone
reactNativeMaps(pkgs) == [i \in DOMAIN pkgs |-> [name |-> pkgs[i]]]

\* a result map whose iteration order is not fixed: either end first
GapFlutterResolveEitherOrder ==
    /\ pc = "fl_return"
    /\ \E pkgs \in {result, [i \in DOMAIN result |-> result[Len(result) + 1 - i]]} :
          GapResolve(flutterMaps(pkgs))

GapFlutterResolve ==
    /\ pc = "fl_return"
    /\ GapResolve(flutterMaps(result))

GapReactNativeResolve ==
    /\ pc = "rn_return"
    /\ GapResolve(reactNativeMaps(rnResult))

(***************************************************************************)
(* extractFlutterPackages                                                  *)
(***************************************************************************)
flutterFrame ==
    UNCHANGED << ui, installed, caller, promise, apps, app, framework, rnResult, hist >>

FlOpenOk ==
    /\ pc = "fl_open"
    /\ pathIdx <= Len(apkPaths)
    /\ Disk[apkPaths[pathIdx]].zip
    /\ zip' = << apkPaths[pathIdx] >>
    /\ pc' = "fl_lock"
    /\ UNCHANGED << apkPaths, pathIdx, result, sets >>
    /\ flutterFrame

\* the try around the loop: the first archive that does not open ends the scan
FlOpenFailStops ==
    /\ pc = "fl_open"
    /\ pathIdx <= Len(apkPaths)
    /\ ~Disk[apkPaths[pathIdx]].zip
    /\ pathIdx' = Len(apkPaths) + 1
    /\ UNCHANGED << pc, apkPaths, zip, result, sets >>
    /\ flutterFrame

\* ZipFile(apkPath) throws: caught by the catch of the loop body
FlOpenFail ==
    /\ pc = "fl_open"
    /\ pathIdx <= Len(apkPaths)
    /\ ~Disk[apkPaths[pathIdx]].zip
    /\ pathIdx' = pathIdx + 1
    /\ UNCHANGED << pc, apkPaths, zip, result, sets >>
    /\ flutterFrame

\* 1. pubspec.lock, running to its end
FlLockfile ==
    /\ pc = "fl_lock"
    /\ ~pubspecLockOf[zip[1]].threw
    /\ result' = MapPutAll(result, pubspecLockOf[zip[1]].writes)
    /\ pc' = "fl_scan"
    /\ UNCHANGED << apkPaths, pathIdx, zip, sets >>
    /\ flutterFrame

\* 1. pubspec.lock, throwing: the use block closes the archive and the
\* catch of the loop body goes on to the next archive
FlLockfileThrows ==
    /\ pc = "fl_lock"
    /\ pubspecLockOf[zip[1]].threw
    /\ result' = MapPutAll(result, pubspecLockOf[zip[1]].writes)
    /\ zip' = << >>
    /\ pathIdx' = pathIdx + 1
    /\ pc' = "fl_open"
    /\ UNCHANGED << apkPaths, sets >>
    /\ flutterFrame

\* 2. to 7. over the entries of the archive
FlScan ==
    /\ pc = "fl_scan"
    /\ sets' = addNames(sets, scanEntriesOf[zip[1]])
    /\ zip' = << >>
    /\ pathIdx' = pathIdx + 1
    /\ pc' = "fl_open"
    /\ UNCHANGED << apkPaths, result >>
    /\ flutterFrame

\* after the loop: add all found packages not already in result, return
FlMerge ==
    /\ pc = "fl_open"
    /\ pathIdx > Len(apkPaths)
    /\ result' = mergeNames(result, allPackages(sets))
    /\ pc' = "fl_return"
    /\ apkPaths' = << >>
    /\ pathIdx' = 0
    /\ UNCHANGED << zip, sets >>
    /\ flutterFrame

(***************************************************************************)
(* extractReactNativePackages                                              *)
(***************************************************************************)
reactNativeFrame ==
    UNCHANGED << ui, installed, caller, promise, apps, app, framework, result, sets, hist >>

RnOpenOk ==
    /\ pc = "rn_open"
    /\ pathIdx <= Len(apkPaths)
    /\ Disk[apkPaths[pathIdx]].zip
    /\ zip' = << apkPaths[pathIdx] >>
    /\ pc' = "rn_bundle"
    /\ UNCHANGED << apkPaths, pathIdx, rnResult >>
    /\ reactNativeFrame

RnOpenFail ==
    /\ pc = "rn_open"
    /\ pathIdx <= Len(apkPaths)
    /\ ~Disk[apkPaths[pathIdx]].zip
    /\ pathIdx' = pathIdx + 1
    /\ UNCHANGED << pc, apkPaths, zip, rnResult >>
    /\ reactNativeFrame

\* the four scans of assets/index.android.bundle, when it is there
RnBundle ==
    /\ pc = "rn_bundle"
    /\ ~bundleNamesOf[zip[1]].threw
    /\ rnResult' = SetAddAll(rnResult, bundleNamesOf[zip[1]].names)
    /\ pc' = "rn_scan"
    /\ UNCHANGED << apkPaths, pathIdx, zip >>
    /\ reactNativeFrame

\* the bundle read outside a use block: the exception leaves the handle open
RnBundleThrowsKeepsHandle ==
    /\ pc = "rn_bundle"
    /\ bundleNamesOf[zip[1]].threw
    /\ pathIdx' = pathIdx + 1
    /\ pc' = "rn_open"
    /\ UNCHANGED << apkPaths, rnResult, zip >>
    /\ reactNativeFrame

\* reading the bundle throws: the archive is closed, next archive
RnBundleThrows ==
    /\ pc = "rn_bundle"
    /\ bundleNamesOf[zip[1]].threw
    /\ zip' = << >>
    /\ pathIdx' = pathIdx + 1
    /\ pc' = "rn_open"
    /\ UNCHANGED << apkPaths, rnResult >>
    /\ reactNativeFrame

\* lib/*.so and META-INF/*.SF over the entry names
RnScan ==
    /\ pc = "rn_scan"
    /\ rnResult' = SetAddAll(rnResult, nativeNamesOf[zip[1]])
    /\ zip' = << >>
    /\ pathIdx' = pathIdx + 1
    /\ pc' = "rn_open"
    /\ UNCHANGED << apkPaths >>
    /\ reactNativeFrame

RnReturn ==
    /\ pc = "rn_open"
    /\ pathIdx > Len(apkPaths)
    /\ pc' = "rn_return"
    /\ apkPaths' = << >>
    /\ pathIdx' = 0
    /\ UNCHANGED << zip, rnResult >>
    /\ reactNativeFrame

(***************************************************************************)
(* Specification.                                                          *)
(***************************************************************************)
Next ==
    \/ InvokeGetInstalledApps
    \/ GiaDetect
    \/ GiaPush
    \/ GiaResolve
    \/ DfOpenOk
    \/ DfOpenFail
    \/ DfMatch
    \/ DfNoMatch
    \/ DfUnknown
    \/ InvokeGetAppPackages
    \/ GapNotFound
    \/ GapFlutter
    \/ GapReactNative
    \/ GapUnknown
    \/ GapFlutterResolve
    \/ GapReactNativeResolve
    \/ FlOpenOk
    \/ FlOpenFail
    \/ FlLockfile
    \/ FlLockfileThrows
    \/ FlScan
    \/ FlMerge
    \/ RnOpenOk
    \/ RnOpenFail
    \/ RnBundle
    \/ RnBundleThrows
    \/ RnScan
    \/ RnReturn

Spec == Init /\ [][Next]_vars

SpecHistory == InitHistory /\ [][Next]_vars

SpecTwoApps == InitTwoApps /\ [][Next]_vars

(***************************************************************************)
(* The evidence the archives hold, stated from the entries of the Disk     *)
(* (not from the code of the heuristics), for the properties below.        *)
(***************************************************************************)
Opens(p) == Disk[p].zip

\* the archives of a sequence of paths that open, in order
opened(paths) == SelectSeq(paths, Opens)

hasFlutterSignature ==
    [p \in Paths |-> \E e \in Range(Disk[p].entries) : endsWith(e.name, "libflutter.so")]

hasReactNativeSignature ==
    [p \in Paths |->
        \E e \in Range(Disk[p].entries) :
            \/ endsWith(e.name, "libreactnativejni.so")
            \/ endsWith(e.name, "index.android.bundle")]

\* the archive paths of the application that detectFramework or an
\* extractor was called with
pathsOfApp == apkPathsOf(installed[app])

\* detectFramework has returned to its caller
DetectReturned == pc \in {"gia_push", "gap_when"}

\* the application a settled getAppPackages promise is about
promisedApp == installed[CHOOSE i \in lookup(promise.arg) : TRUE]

PackagesResolved ==
    /\ promise.method = "getAppPackages"
    /\ promise.state = "resolved"
    /\ lookup(promise.arg) # {}

\* the lockfile document of an archive: << >> or << yaml >>
lockDoc ==
    [p \in Paths |->
        LET es == {e \in Range(Disk[p].entries) : e.name = "assets/pubspec.lock"}
        IN  IF es = {} THEN << >> ELSE << (CHOOSE e \in es : TRUE) >>]

\* the lockfile is a document with a top-level packages mapping of mappings
wellFormedLock ==
    [p \in Paths |->
        /\ lockDoc[p] # << >>
        /\ lockDoc[p][1].readable
        /\ lockDoc[p][1].yaml.kind = "map"
        /\ lockDoc[p][1].yaml.pkind = "map"
        /\ \A it \in Range(lockDoc[p][1].yaml.items) : it.isMap]

malformedLock == [p \in Paths |-> lockDoc[p] # << >> /\ ~wellFormedLock[p]]

\* the entries of the packages mapping of a well-formed lockfile
lockItems ==
    [p \in Paths |-> IF wellFormedLock[p] THEN Range(lockDoc[p][1].yaml.items) ELSE {}]

lockNames == [p \in Paths |-> {it.name : it \in lockItems[p]}]

\* the names under the packages mapping of the lockfile, well-formed or not
lockMentions ==
    [p \in Paths |->
        IF lockDoc[p] = << >> THEN {}
        ELSE {it.name : it \in Range(lockDoc[p][1].yaml.items)}]

\* the segments the name-only heuristics 2 to 7 capture in an archive
groupSet(matches, n) == {matches[i][n] : i \in DOMAIN matches}

nameOnlyNames ==
    [p \in Paths |->
        UNION {groupSet(find(e.name, assetRegex), 1)
               \cup groupSet(find(e.name, flutterAssetsRegex), 1)
               \cup groupSet(find(e.name, libRegex), 2)
               \cup groupSet(find(e.name, metaInfRegex), 1)
               \cup (IF /\ e.readable
                        /\ \/ substringAfterLast(e.name, "/") \in snapshotFileNames
                           \/ startsWith(e.name, "assets/")
                           \/ startsWith(e.name, "flutter_assets/")
                     THEN groupSet(findAll(e.text, packagePattern), 1)
                     ELSE {})
               : e \in Range(Disk[p].entries)}]

(***************************************************************************)
(* Properties.                                                             *)
(***************************************************************************)

\* C1: detectFramework returns the label of the first archive, in the
\* supplied order, that opens and holds a signature: Flutter if an entry name
\* ends with libflutter.so, otherwise React Native if one ends with
\* libreactnativejni.so or index.android.bundle; Unknown if no archive does.
C1_FirstSignatureWins ==
    DetectReturned =>
        LET paths == opened(pathsOfApp)
            hits  == {i \in DOMAIN paths :
                        hasFlutterSignature[paths[i]] \/ hasReactNativeSignature[paths[i]]}
        IN  IF hits = {} THEN framework = "Unknown"
            ELSE LET first == CHOOSE i \in hits : \A j \in hits : i <= j
                 IN  framework = IF hasFlutterSignature[paths[first]]
                                 THEN "Flutter" ELSE "React Native"

\* an archive with both signatures comes first, before a React Native one
C1_Witness ==
    /\ DetectReturned
    /\ pathsOfApp = << "both", "rn" >>
    /\ framework = "Flutter"

\* C2: the names of one detection result are unique, and in a Flutter result
\* a name no lockfile names has version null.
C2_UniqueNames ==
    PackagesResolved =>
        /\ \A i, j \in DOMAIN promise.value :
              promise.value[i].name = promise.value[j].name => i = j
        /\ \A i \in DOMAIN promise.value :
              LET r == promise.value[i]
              IN  ("version" \in DOMAIN r
                   /\ \A p \in Range(opened(apkPathsOf(promisedApp))) :
                         r.name \notin lockMentions[p])
                  => r.version = NULL

\* lib/arm64-v8a/libbaz.so and META-INF/baz.SF give one record for baz
C2_Witness ==
    /\ PackagesResolved
    /\ apkPathsOf(promisedApp) = << "flutter" >>
    /\ Cardinality({i \in DOMAIN promise.value : promise.value[i].name = "baz"}) = 1
    /\ \E i \in DOMAIN promise.value :
          promise.value[i] = [name |-> "baz", version |-> NULL]

\* extractFlutterPackages has returned its result to getAppPackages
FlutterReturned == pc = "fl_return"

\* the positions, among the opened archives, whose lockfile names n
lockfilesNaming(paths, n) == {i \in DOMAIN paths : n \in lockMentions[paths[i]]}

\* the version the lockfile of archive p gives n (null: no version field)
lockVersion(p, n) ==
    (CHOOSE it \in Range(lockDoc[p][1].yaml.items) : it.name = n).version

\* the names some opened archive gives evidence for
evidencedNames(paths) ==
    UNION {lockMentions[p] \cup nameOnlyNames[p] : p \in Range(paths)}

\* C3: in a Flutter result, a name for which some lockfile entry of some
\* archive carries a version has a record that carries a version, whatever
\* version-absent evidence for the name exists in whichever archive.
C3_VersionedEvidenceWins ==
    FlutterReturned =>
        \A p \in Range(opened(pathsOfApp)) :
            \A it \in lockItems[p] :
                it.version # NULL =>
                    /\ containsKey(result, it.name)
                    /\ MapGet(result, it.name) # NULL

\* C4: the merge runs once, after the loop over the archives: it leaves every
\* entry of the lockfile accumulator as it is and adds, with version null,
\* exactly the name-only observations that are not keys of the accumulator;
\* the name-only heuristics themselves never write to the accumulator.
C4_MergeKeepsLockfileEntries ==
    [][ /\ (pc = "fl_scan" => result' = result)
        /\ (pc # "fl_return" /\ pc' = "fl_return" =>
              /\ pc = "fl_open" /\ pathIdx > Len(apkPaths)
              /\ Len(result') >= Len(result)
              /\ \A i \in DOMAIN result : result'[i] = result[i]
              /\ \A i \in DOMAIN result' \ DOMAIN result :
                    /\ result'[i].value = NULL
                    /\ result'[i].key \notin Keys(result)
                    /\ result'[i].key \in Range(allPackages(sets))
              /\ Range(allPackages(sets)) \subseteq Keys(result'))
      ]_vars

\* the name-only evidence for bar comes in the archive before the one whose
\* lockfile gives bar its version
C4_Witness ==
    /\ FlutterReturned
    /\ pathsOfApp = << "c5", "lock2" >>
    /\ "bar" \in Range(allPackages(sets))
    /\ MapGet(result, "bar") = Some("1.0.0")

\* C5: the Flutter result holds exactly the records the evidence implies:
\* the names of the parsed lockfiles, each with its lockfile version, and the
\* names the name-only heuristics capture in the archives that open, each
\* with version null.
C5_ExactRecords ==
    FlutterReturned =>
        LET paths == opened(pathsOfApp)
            named(n) == {i \in DOMAIN paths : n \in lockNames[paths[i]]}
            last(n) == CHOOSE i \in named(n) : \A j \in named(n) : j <= i
            names == UNION {lockNames[q] \cup nameOnlyNames[q] : q \in Range(paths)}
        IN  {<< result[i].key, result[i].value >> : i \in DOMAIN result}
            = {<< n, IF named(n) = {} THEN NULL ELSE lockVersion(paths[last(n)], n) >> :
                  n \in names}

\* C6: a name that the lockfiles of more than one archive give (each of them
\* a mapping of mappings) has, in the Flutter result, the version of the
\* last of these archives in scan order.
C6_LastLockfileWins ==
    FlutterReturned =>
        LET paths == opened(pathsOfApp)
        IN  \A n \in evidencedNames(paths) :
                LET at == lockfilesNaming(paths, n)
                IN  (Cardinality(at) > 1 /\ \A i \in at : wellFormedLock[paths[i]])
                    => /\ containsKey(result, n)
                       /\ MapGet(result, n) =
                            lockVersion(paths[CHOOSE i \in at : \A j \in at : j <= i], n)

\* the lockfiles of both archives name foo, with different versions
C6_Witness ==
    /\ FlutterReturned
    /\ pathsOfApp = << "c5", "lock2" >>
    /\ lockVersion("c5", "foo") = Some("1.2.3")
    /\ MapGet(result, "foo") = Some("2.0.0")

\* C7: when the lockfile of an archive is malformed, the name-only heuristics
\* still run on that archive: the names they capture there are in the result.
C7_MalformedLockfileRecovered ==
    FlutterReturned =>
        \A p \in Range(opened(pathsOfApp)) :
            malformedLock[p] => nameOnlyNames[p] \subseteq Keys(result)

\* the label of a sequence of archives that all open
RECURSIVE firstLabel(_)
firstLabel(paths) ==
    IF paths = << >> THEN "Unknown"
    ELSE IF hasFlutterSignature[Head(paths)] THEN "Flutter"
    ELSE IF hasReactNativeSignature[Head(paths)] THEN "React Native"
    ELSE firstLabel(Tail(paths))

\* C8: an archive that does not open is passed over by detectFramework: the
\* label is the label of the sequence without the paths that do not open,
\* and no exception escapes (a promise is only rejected for a package that
\* is not installed).
C8_UnopenableSkipped ==
    /\ DetectReturned => framework = firstLabel(opened(pathsOfApp))
    /\ promise.state = "rejected" =>
          promise.method = "getAppPackages" /\ lookup(promise.arg) = {}

\* a path that is no zip, then an archive with a Flutter signature
C8_Witness ==
    /\ DetectReturned
    /\ pathsOfApp = << "bad", "flutter" >>
    /\ framework = "Flutter"

\* the bundle entry of an archive: << >> or << entry >>
bundleDoc ==
    [p \in Paths |->
        LET es == {e \in Range(Disk[p].entries) : e.name = "assets/index.android.bundle"}
        IN  IF es = {} THEN << >> ELSE << (CHOOSE e \in es : TRUE) >>]

\* a spec the exclusion filter discards
localOrFramework(spec) ==
    \E prefix \in {"./", "../", "/", "react-native"} : startsWith(spec, prefix)

\* the names the bundle of an archive gives
bundleEvidence ==
    [p \in Paths |->
        IF bundleDoc[p] = << >> \/ ~bundleDoc[p][1].readable THEN {}
        ELSE LET text == bundleDoc[p][1].text
                 scoped == findAll(text, atScopedRegex)
             IN  {spec \in groupSet(findAll(text, requireRegex), 1)
                           \cup groupSet(findAll(text, importRegex), 1)
                           \cup groupSet(findAll(text, metroDefineRegex), 1) :
                     ~localOrFramework(spec)}
                 \cup {"@" \o scoped[i][1] \o "/" \o scoped[i][2] : i \in DOMAIN scoped}]

\* the segments of the native-lib and signature-file entry names of an archive
nativeEvidence ==
    [p \in Paths |->
        UNION {groupSet(find(e.name, libRegex), 2) \cup groupSet(find(e.name, metaInfRegex), 1)
               : e \in Range(Disk[p].entries)}]

unreadableBundle == [p \in Paths |-> bundleDoc[p] # << >> /\ ~bundleDoc[p][1].readable]

ReactNativeReturned == pc = "rn_return"

Extracting == pc \in {"fl_open", "fl_lock", "fl_scan", "fl_return",
                      "rn_open", "rn_bundle", "rn_scan", "rn_return"}

\* C9: in both extractors an archive that does not open contributes no
\* evidence and does not stop the scan: the result holds only names that the
\* archives that open give evidence for, it holds the evidence of every
\* archive that opens and is read without error, wherever the archive stands
\* among the ones that do not open, and the extractor returns normally.
C9_ExtractorSkipsUnopenable ==
    /\ Extracting => promise.state = "pending"
    /\ FlutterReturned =>
          /\ Keys(result) \subseteq evidencedNames(opened(pathsOfApp))
          /\ \A p \in Range(opened(pathsOfApp)) :
                ~malformedLock[p] =>
                    lockNames[p] \cup nameOnlyNames[p] \subseteq Keys(result)
    /\ ReactNativeReturned =>
          /\ Range(rnResult) \subseteq
                UNION {bundleEvidence[p] \cup nativeEvidence[p] :
                          p \in Range(opened(pathsOfApp))}
          /\ \A p \in Range(opened(pathsOfApp)) :
                ~unreadableBundle[p] =>
                    bundleEvidence[p] \cup nativeEvidence[p] \subseteq Range(rnResult)

\* the base archive does not open, the split archive is scanned
C9_Witness ==
    /\ FlutterReturned
    /\ pathsOfApp = << "bad", "flutter" >>
    /\ {"http", "baz", "qux"} \subseteq Keys(result)

noneOpens(info) == \A p \in Range(apkPathsOf(info)) : ~Opens(p)

\* C10: when none of the archives of an application opens, getAppPackages
\* resolves with an empty list and getInstalledApps reports the application
\* with framework "Unknown"; neither rejects.
C10_NothingOpensIsUnknown ==
    /\ (promise.method = "getAppPackages" /\ lookup(promise.arg) # {}
        /\ noneOpens(promisedApp)) =>
          /\ promise.state \in {"pending", "resolved"}
          /\ promise.state = "resolved" => promise.value = << >>
    /\ promise.method = "getInstalledApps" =>
          /\ promise.state \in {"pending", "resolved"}
          /\ promise.state = "resolved" =>
                /\ Len(promise.value) = Len(installed)
                /\ \A i \in DOMAIN installed :
                      noneOpens(installed[i]) =>
                          /\ promise.value[i].packageName = packageNameOf(i)
                          /\ promise.value[i].framework = "Unknown"
                          /\ promise.value[i].packages = << >>

C10_Witness ==
    /\ promise.method = "getAppPackages"
    /\ promise.state = "resolved"
    /\ lookup(promise.arg) # {}
    /\ noneOpens(promisedApp)
    /\ promise.value = << >>

\* the statements of the two extractors
FlutterPcs == {"fl_open", "fl_lock", "fl_scan", "fl_return"}

ReactNativePcs == {"rn_open", "rn_bundle", "rn_scan", "rn_return"}

\* C11: getAppPackages dispatches on the label detectFramework returned:
\* "Flutter" runs the Flutter extractor and nothing of the React Native one,
\* "React Native" runs the React Native extractor and nothing of the Flutter
\* one, any other label resolves with an empty list and runs no extractor;
\* the packages the promise resolves with are the output of the extractor
\* that ran, pair by pair.
C11_DispatchOnLabel ==
    [][/\ pc = "gap_when" =>
            /\ pc' = CASE framework = "Flutter"      -> "fl_open"
                       [] framework = "React Native" -> "rn_open"
                       [] OTHER                      -> "idle"
            /\ pc' = "idle" => promise'.state = "resolved" /\ promise'.value = << >>
       /\ pc' \in FlutterPcs =>
            framework' = "Flutter" /\ pc \in FlutterPcs \cup {"gap_when"} /\ rnResult' = << >>
       /\ pc' \in ReactNativePcs =>
            /\ framework' = "React Native"
            /\ pc \in ReactNativePcs \cup {"gap_when"}
            /\ result' = << >> /\ sets' = NoNames
       /\ pc = "fl_return" =>
            /\ promise'.state = "resolved"
            /\ Len(promise'.value) = Len(result)
            /\ \A i \in DOMAIN result :
                  promise'.value[i] = [name |-> result[i].key, version |-> result[i].value]
       /\ pc = "rn_return" =>
            /\ promise'.state = "resolved"
            /\ Len(promise'.value) = Len(rnResult)
            /\ \A i \in DOMAIN rnResult : promise'.value[i] = [name |-> rnResult[i]]
      ]_vars

\* a React Native application whose packages were returned
C11_Witness ==
    /\ PackagesResolved
    /\ firstLabel(opened(apkPathsOf(promisedApp))) = "React Native"
    /\ [name |-> "lodash"] \in Range(promise.value)

\* the specs the require, from and __d scans capture in the bundle of an
\* archive, before any filter
capturedSpecs ==
    [p \in Paths |->
        IF bundleDoc[p] = << >> \/ ~bundleDoc[p][1].readable THEN {}
        ELSE LET text == bundleDoc[p][1].text
             IN  groupSet(findAll(text, requireRegex), 1)
                 \cup groupSet(findAll(text, importRegex), 1)
                 \cup groupSet(findAll(text, metroDefineRegex), 1)]

\* C12: a spec that the require, from or __d scan of a bundle captures is
\* added to the React Native result by that scan if and only if it starts
\* with none of "./", "../", "/" and "react-native": a spec that starts with
\* none of them is in the result, and one that starts with one of them is in
\* the result only when an entry name of an archive gives it as a segment.
\* A bundle whose only specs are ./local, react-native-gesture-handler and
\* lodash gives the result lodash alone.
C12_ExclusionFilter ==
    ReactNativeReturned =>
        /\ \A p \in Range(opened(pathsOfApp)) :
              \A spec \in capturedSpecs[p] :
                 IF localOrFramework(spec)
                 THEN spec \in Range(rnResult) =>
                         \E q \in Range(opened(pathsOfApp)) : spec \in nativeEvidence[q]
                 ELSE spec \in Range(rnResult)
        /\ pathsOfApp = << "c12" >> => rnResult = << "lodash" >>

C12_Witness ==
    /\ ReactNativeReturned
    /\ pathsOfApp = << "c12" >>
    /\ capturedSpecs["c12"] = {"./local", "react-native-gesture-handler", "lodash"}
    /\ rnResult = << "lodash" >>

\* the @<org>/<name> tokens of the bundle of an archive: at every place of
\* the text where one starts, the longest one
scopedTokens ==
    [p \in Paths |->
        IF bundleDoc[p] = << >> \/ ~bundleDoc[p][1].readable THEN {}
        ELSE LET text == bundleDoc[p][1].text
                 at(i) == MatchAt(text, i, atScopedRegex)
             IN  {"@" \o at(i).groups[1] \o "/" \o at(i).groups[2] :
                     i \in {j \in 1..Len(text) : at(j).ok}}]

\* C13: every @<org>/<name> token of a readable bundle of an archive that
\* opens is in the React Native result as it stands in the text, with no
\* exclusion filter: also a token inside a relative or a react-native spec.
C13_ScopedNamesUnfiltered ==
    ReactNativeReturned =>
        \A p \in Range(opened(pathsOfApp)) : scopedTokens[p] \subseteq Range(rnResult)

\* the token of require('../x/@scope/pkg')
C13_Witness ==
    /\ ReactNativeReturned
    /\ "rn" \in Range(pathsOfApp)
    /\ "../x/@scope/pkg" \in capturedSpecs["rn"]
    /\ "@scope/pkg" \in scopedTokens["rn"]
    /\ "@scope/pkg" \in Range(rnResult)

\* C14: in the React Native extractor the native-lib and signature-file
\* segments of the entry names of every archive that opens are in the
\* result, whether or not the archive holds assets/index.android.bundle.
C14_NativeNamesOfEveryArchive ==
    ReactNativeReturned =>
        \A p \in Range(opened(pathsOfApp)) : nativeEvidence[p] \subseteq Range(rnResult)

\* C15: when reading assets/index.android.bundle fails, the bundle
\* contributes nothing and the native-lib and signature-file segments of the
\* entry names of the same archive are still added to the result.
C15_BundleFailureRecovered ==
    ReactNativeReturned =>
        \A p \in Range(opened(pathsOfApp)) :
            unreadableBundle[p] =>
                /\ nativeEvidence[p] \subseteq Range(rnResult)
                /\ pathsOfApp = << p >> => Range(rnResult) = nativeEvidence[p]

\* the archive holds an entry that heuristic 6 or 7 reads and that cannot be
\* read (the lockfile, read by heuristic 1, is not meant)
unreadableContent ==
    [p \in Paths |->
        \E e \in Range(Disk[p].entries) :
            /\ ~e.readable
            /\ e.name # "assets/pubspec.lock"
            /\ \/ substringAfterLast(e.name, "/") \in snapshotFileNames
               \/ startsWith(e.name, "assets/")
               \/ startsWith(e.name, "flutter_assets/")]

\* C16: in the Flutter extractor an entry that the snapshot-content or the
\* asset-content heuristic cannot read is skipped alone: the names that the
\* entries of the same archive give under heuristics 2 to 7 are in the
\* result, and so is the evidence of the archives that come after it.
C16_ContentFailureSkipsEntry ==
    FlutterReturned =>
        LET paths == opened(pathsOfApp)
        IN  \A i \in DOMAIN paths :
               (unreadableContent[paths[i]] /\ ~malformedLock[paths[i]]) =>
                  /\ nameOnlyNames[paths[i]] \subseteq Keys(result)
                  /\ \A j \in DOMAIN paths :
                        (j > i /\ ~malformedLock[paths[j]]) =>
                            lockNames[paths[j]] \cup nameOnlyNames[paths[j]]
                                \subseteq Keys(result)

\* assets/blob.bin cannot be read; the entries after it and the next archive
\* are scanned
C16_Witness ==
    /\ FlutterReturned
    /\ pathsOfApp = << "flutter", "rnlib" >>
    /\ unreadableContent["flutter"]
    /\ {"app", "baz", "qux", "http", "bar", "reactnativejni"} \subseteq Keys(result)

\* a settled getAppPackages call for an application with label React Native
ReactNativeResolved ==
    /\ PackagesResolved
    /\ firstLabel(opened(apkPathsOf(promisedApp))) = "React Native"

\* C17: every record of a React Native result has a name and no version,
\* and no name occurs twice.
C17_NamesWithoutVersion ==
    ReactNativeResolved =>
        /\ \A i \in DOMAIN promise.value :
              /\ DOMAIN promise.value[i] = {"name"}
              /\ promise.value[i].name \in
                    UNION {bundleEvidence[p] \cup nativeEvidence[p] :
                              p \in Range(opened(apkPathsOf(promisedApp)))}
        /\ \A i, j \in DOMAIN promise.value :
              promise.value[i].name = promise.value[j].name => i = j

\* the bundle names @react-navigation/native twice, the entry names baz twice
C17_Witness ==
    /\ ReactNativeResolved
    /\ apkPathsOf(promisedApp) = << "rn" >>
    /\ {"@react-navigation/native", "baz"} \subseteq {r.name : r \in Range(promise.value)}

\* the call that settled last, as the history keeps calls
settledCall ==
    [method |-> promise.method, arg |-> promise.arg,
     value |-> promise.value, label |-> hist.label]

\* both the last call and a remembered earlier one resolved
TwoCallsResolved == promise.state = "resolved" /\ hist.last.method # ""

\* the label getInstalledApps reported for the application of a
\* getAppPackages call
reportedLabel(list, call) ==
    {list.value[i].framework : i \in lookup(call.arg) \cap DOMAIN list.value}

\* C18: on a device whose archives do not change, any two resolved
\* invocations agree: two getAppPackages calls for the same application
\* dispatch on the same label and resolve with the same sequence of records
\* (same names, same versions, same order), two getInstalledApps calls
\* resolve with the same list, and the label getInstalledApps reports for an
\* application is the label getAppPackages dispatches on.
C18_Deterministic ==
    TwoCallsResolved =>
        LET a == hist.last
            b == settledCall
        IN  /\ (a.method = b.method /\ a.arg = b.arg) => a = b
            /\ (a.method = "getInstalledApps" /\ b.method = "getAppPackages") =>
                  reportedLabel(a, b) = {b.label}
            /\ (a.method = "getAppPackages" /\ b.method = "getInstalledApps") =>
                  reportedLabel(b, a) = {a.label}

\* two calls for the same Flutter application, three packages or more
C18_Witness ==
    /\ TwoCallsResolved
    /\ hist.last.method = "getAppPackages"
    /\ hist.last = settledCall
    /\ hist.last.label = "Flutter"
    /\ Len(promise.value) >= 3

\* the characters of the names of the Disk, by ascending code unit
codeUnits == "-./0123456789@ABCDEFGHIJKLMNOPQRSTUVWXYZ_abcdefghijklmnopqrstuvwxyz"

codeUnit(c) == CHOOSE i \in 1..Len(codeUnits) : CharAt(codeUnits, i) = c

\* a <= b in the case-sensitive order of strings, code unit by code unit
RECURSIVE notAfter(_, _)
notAfter(a, b) ==
    IF a = "" THEN TRUE
    ELSE IF b = "" THEN FALSE
    ELSE IF CharAt(a, 1) = CharAt(b, 1)
         THEN notAfter(SubSeq(a, 2, Len(a)), SubSeq(b, 2, Len(b)))
         ELSE codeUnit(CharAt(a, 1)) < codeUnit(CharAt(b, 1))

\* the names of a sequence of records, in order
namesOf(records) == [i \in DOMAIN records |-> records[i].name]

\* C19: the packages sequence getAppPackages resolves with is sorted by
\* name, case-sensitive, ascending, for both extractors.
C19_SortedByName ==
    PackagesResolved =>
        \A i, j \in DOMAIN promise.value :
            i < j => notAfter(promise.value[i].name, promise.value[j].name)

\* a sequence of sequences, concatenated
RECURSIVE flatten(_)
flatten(seqs) == IF seqs = << >> THEN << >> ELSE Head(seqs) \o flatten(Tail(seqs))

\* a sequence without the later occurrences of its elements
RECURSIVE firstOccurrences(_)
firstOccurrences(s) ==
    IF s = << >> THEN << >>
    ELSE LET front == firstOccurrences(SubSeq(s, 1, Len(s) - 1))
         IN  IF s[Len(s)] \in Range(front) THEN front ELSE Append(front, s[Len(s)])

\* reading the lockfile of the archive ends in an exception
lockThrows ==
    [p \in Paths |->
        /\ lockDoc[p] # << >>
        /\ \/ ~lockDoc[p][1].readable
           \/ lockDoc[p][1].yaml.kind # "map"
           \/ /\ lockDoc[p][1].yaml.pkind = "map"
              /\ \E it \in Range(lockDoc[p][1].yaml.items) : ~it.isMap]

\* the names of the lockfile of an archive in the order of the document, up
\* to the first entry that is no mapping
lockOrder ==
    [p \in Paths |->
        IF lockDoc[p] = << >> \/ ~lockDoc[p][1].readable
           \/ lockDoc[p][1].yaml.kind # "map" \/ lockDoc[p][1].yaml.pkind # "map"
        THEN << >>
        ELSE LET items == lockDoc[p][1].yaml.items
                 stop  == {i \in DOMAIN items : ~items[i].isMap} \cup {Len(items) + 1}
                 first == CHOOSE i \in stop : \A j \in stop : i <= j
             IN  [i \in 1..(first - 1) |-> items[i].name]]

\* what heuristic h (2 to 7) captures in one entry, in match order
capturesOf(h, e) ==
    LET group(matches, n) == [i \in DOMAIN matches |-> matches[i][n]]
        content == IF e.readable THEN group(findAll(e.text, packagePattern), 1) ELSE << >>
    IN  CASE h = 2 -> group(find(e.name, assetRegex), 1)
          [] h = 3 -> group(find(e.name, flutterAssetsRegex), 1)
          [] h = 4 -> group(find(e.name, libRegex), 2)
          [] h = 5 -> group(find(e.name, metaInfRegex), 1)
          [] h = 6 -> IF substringAfterLast(e.name, "/") \in snapshotFileNames
                      THEN content ELSE << >>
          [] h = 7 -> IF startsWith(e.name, "assets/") \/ startsWith(e.name, "flutter_assets/")
                      THEN content ELSE << >>

\* what heuristic h captures in an archive, entry after entry; nothing when
\* the lockfile made the extractor leave the archive
heuristicOrder ==
    [p \in Paths |->
        [h \in 2..7 |->
            IF lockThrows[p] THEN << >>
            ELSE flatten([i \in DOMAIN Disk[p].entries |-> capturesOf(h, Disk[p].entries[i])])]]

\* the names the Flutter extractor comes upon, in the order it does: the
\* lockfiles archive after archive, then heuristic after heuristic
flutterDiscovery(paths) ==
    flatten([i \in DOMAIN paths |-> lockOrder[paths[i]]])
    \o flatten([k \in 1..6 |->
                   flatten([i \in DOMAIN paths |-> heuristicOrder[paths[i]][k + 1]])])

\* the names the React Native extractor comes upon in one archive, in the
\* order it does: the four scans of the bundle, then the entry names; nothing
\* when the bundle cannot be read
reactNativeOrder ==
    [p \in Paths |->
        IF unreadableBundle[p] THEN << >>
        ELSE LET group(matches, n) == [i \in DOMAIN matches |-> matches[i][n]]
                 kept(specs) == SelectSeq(specs, LAMBDA spec : ~localOrFramework(spec))
                 text   == bundleDoc[p][1].text
                 scoped == findAll(text, atScopedRegex)
                 names  == Disk[p].entries
             IN  (IF bundleDoc[p] = << >> THEN << >>
                  ELSE kept(group(findAll(text, requireRegex), 1))
                       \o kept(group(findAll(text, importRegex), 1))
                       \o kept(group(findAll(text, metroDefineRegex), 1))
                       \o [i \in DOMAIN scoped |-> "@" \o scoped[i][1] \o "/" \o scoped[i][2]])
                 \o flatten([i \in DOMAIN names |->
                                group(find(names[i].name, libRegex), 2)
                                \o group(find(names[i].name, metaInfRegex), 1)])]

reactNativeDiscovery(paths) == flatten([i \in DOMAIN paths |-> reactNativeOrder[paths[i]]])

\* C19 (amended): the packages sequence is in the order in which the
\* extractor first came upon each name, not in the order of the names: for
\* Flutter the names of the lockfiles, archive after archive in document
\* order, then the names of heuristics 2 to 7, heuristic after heuristic and
\* within one heuristic archive after archive and entry after entry; for
\* React Native, archive after archive, the require, from, __d and scoped
\* captures of the bundle and then the segments of the entry names.
C19_DiscoveryOrder ==
    PackagesResolved =>
        LET paths == opened(apkPathsOf(promisedApp))
            label == firstLabel(paths)
        IN  namesOf(promise.value) =
               CASE label = "Flutter"      -> firstOccurrences(flutterDiscovery(paths))
                 [] label = "React Native" -> firstOccurrences(reactNativeDiscovery(paths))
                 [] OTHER                  -> << >>

\* qux (an asset path) comes before flutter, app and baz (libraries), and
\* foo (a lockfile) before all of them
C19_Witness ==
    /\ PackagesResolved
    /\ apkPathsOf(promisedApp) = << "flutter" >>
    /\ namesOf(promise.value) = << "foo", "http", "qux", "flutter", "app", "baz", "bar" >>
    /\ ~notAfter("qux", "flutter")

\* the literals the consumer compares the framework field with
Labels == {"Flutter", "React Native", "Unknown"}

\* C20: the label detectFramework hands to getInstalledApps and to the when
\* of getAppPackages is one of the literals "Flutter", "React Native" and
\* "Unknown", and the list getInstalledApps resolves with holds, for every
\* installed application, exactly one record, whose framework field is one
\* of the three.
C20_LabelLiteral ==
    /\ DetectReturned => framework \in Labels
    /\ (promise.method = "getAppPackages" /\ promise.state = "resolved")
          => hist.label \in Labels
    /\ (promise.method = "getInstalledApps" /\ promise.state = "resolved") =>
          /\ \A r \in Range(promise.value) : r.framework \in Labels
          /\ \A i \in DOMAIN installed :
                Cardinality({j \in DOMAIN promise.value :
                                promise.value[j].packageName = packageNameOf(i)}) = 1

\* a list with a React Native application and one without any signature
C20_Witness ==
    /\ promise.method = "getInstalledApps"
    /\ promise.state = "resolved"
    /\ {"React Native", "Unknown"} \subseteq {r.framework : r \in Range(promise.value)}

\* the statements inside a use block of a ZipFile
InsideUse == {"df_scan", "fl_lock", "fl_scan", "rn_bundle", "rn_scan"}

\* C21: an archive handle is open only inside the use block of its archive:
\* at most one handle is open at any time, the handle is the one of the
\* archive the loop is at, and none is open where the next archive is opened
\* or where detectFramework or an extractor has returned, whether the block
\* was left by running to its end, by the return on a signature or by an
\* exception.
C21_HandlesScoped ==
    /\ Len(zip) <= 1
    /\ pc \in InsideUse => zip = << apkPaths[pathIdx] >>
    /\ pc \notin InsideUse => zip = << >>

\* the bundle of the first archive could not be read; the second archive is
\* about to be opened
C21_Witness ==
    /\ pc = "rn_open"
    /\ pathIdx = 2
    /\ apkPaths[1] = "rnbad"
    /\ Len(apkPaths) = 2
    /\ zip = << >>

\* the application a call of getAppPackages was about
appOf(call) == installed[CHOOSE i \in lookup(call.arg) : TRUE]

\* C22: a result is computed from the archives of its application alone and
\* afresh: two resolved getAppPackages calls for the same application, or
\* for two applications with the same archives, dispatch on the same label
\* and resolve with the same records, whatever was called before or between
\* them, and a result holds no name that the archives of another
\* application gave.
C22_FreshResults ==
    /\ TwoCallsResolved =>
          LET a == hist.last
              b == settledCall
          IN  (/\ a.method = "getAppPackages"
               /\ b.method = "getAppPackages"
               /\ apkPathsOf(appOf(a)) = apkPathsOf(appOf(b))) =>
                  a.value = b.value /\ a.label = b.label
    /\ PackagesResolved =>
          LET paths == opened(apkPathsOf(promisedApp))
          IN  Range(namesOf(promise.value)) \subseteq
                 evidencedNames(paths)
                 \cup UNION {bundleEvidence[p] \cup nativeEvidence[p] : p \in Range(paths)}

\* two applications with the same archive, one detected after the other
C22_Witness ==
    /\ TwoCallsResolved
    /\ hist.last.method = "getAppPackages"
    /\ promise.method = "getAppPackages"
    /\ hist.last.arg # promise.arg
    /\ apkPathsOf(appOf(hist.last)) = << "rn" >>
    /\ apkPathsOf(promisedApp) = << "rn" >>
    /\ hist.last.value = promise.value
    /\ Len(promise.value) >= 3

\* some archive of the application does not open
affected(info) == \E p \in Range(apkPathsOf(info)) : ~Opens(p)

\* C23: whatever archives of whichever applications do not open,
\* getInstalledApps is not rejected and resolves with one record per
\* installed application, in the order of the package manager; the record of
\* an affected application carries the label of its archives that open,
\* "Unknown" at worst, and an empty package list.
C23_BatchSurvives ==
    promise.method = "getInstalledApps" =>
        /\ promise.state # "rejected"
        /\ promise.state = "resolved" =>
              /\ [i \in DOMAIN promise.value |-> promise.value[i].packageName]
                    = [i \in DOMAIN installed |-> packageNameOf(i)]
              /\ \A i \in DOMAIN installed :
                    affected(installed[i]) =>
                        /\ promise.value[i].framework =
                              firstLabel(opened(apkPathsOf(installed[i])))
                        /\ promise.value[i].packages = << >>

\* the base archive of the first application and the only archive of the
\* second one are no zip files
C23_Witness ==
    /\ promise.method = "getInstalledApps"
    /\ promise.state = "resolved"
    /\ Len(installed) = 2
    /\ apkPathsOf(installed[1]) = << "bad", "flutter" >>
    /\ apkPathsOf(installed[2]) = << "bad" >>
    /\ promise.value[1].framework = "Flutter"
    /\ promise.value[2].framework = "Unknown"

(***************************************************************************)
(* The views: what a record of the list is rendered as.                    *)
(***************************************************************************)
\* require('../../assets/placeholder.png')
placeholder == [kind |-> "asset", value |-> "placeholder.png"]

\* AnimatedAppCard: the source of the Image of a card of the list view; an
\* empty string is falsy
cardImageSource(item) ==
    IF item.icon # "" THEN [kind |-> "uri", value |-> item.icon] ELSE placeholder

\* renderHeader: the source of the Animated.Image of the detail view
headerImageSource(item) ==
    IF item.icon # "" THEN [kind |-> "uri", value |-> item.icon] ELSE placeholder

\* AnimatedAppCard: the package count chip, << >> when it is not rendered
packageCountChip(item) ==
    IF Len(item.packages) > 0 THEN << Len(item.packages) >> ELSE << >>

\* the drawables drawableToBase64 makes no image of
IconsNotLoaded == {"other", "throws"}

\* C24: an application whose icon is neither a bitmap nor an adaptive icon,
\* or whose conversion throws, is in the list getInstalledApps resolves with,
\* with an empty icon string, and the card of the list view and the header
\* of the detail view show the placeholder image for it.
C24_PlaceholderIcon ==
    (promise.method = "getInstalledApps" /\ promise.state = "resolved") =>
        \A i \in DOMAIN installed :
            installed[i].drawable \in IconsNotLoaded =>
                /\ i \in DOMAIN promise.value
                /\ promise.value[i].packageName = packageNameOf(i)
                /\ promise.value[i].icon = ""
                /\ cardImageSource(promise.value[i]) = placeholder
                /\ headerImageSource(promise.value[i]) = placeholder

\* one application with a bitmap icon, one whose icon conversion throws
C24_Witness ==
    /\ promise.method = "getInstalledApps"
    /\ promise.state = "resolved"
    /\ Len(installed) = 2
    /\ installed[1].drawable = "bitmap"
    /\ installed[2].drawable = "throws"
    /\ cardImageSource(promise.value[1]).kind = "uri"
    /\ cardImageSource(promise.value[2]) = placeholder

\* C25: detectFramework stops at the first signature: while it runs, no
\* archive before the one it is at opens and holds a signature, the archive
\* it returns from is the first such archive, and the label of an archive
\* with a Flutter signature is "Flutter" whatever React Native signature the
\* same archive holds.
C25_StopsAtFirstSignature ==
    [][/\ pc' \in {"df_open", "df_scan"} =>
            \A i \in 1..(pathIdx' - 1) :
                Opens(apkPaths'[i]) =>
                    /\ ~hasFlutterSignature[apkPaths'[i]]
                    /\ ~hasReactNativeSignature[apkPaths'[i]]
       /\ (pc = "df_scan" /\ (hasFlutterSignature[zip[1]] \/ hasReactNativeSignature[zip[1]])) =>
            /\ pc' \in {"gia_push", "gap_when"}
            /\ zip' = << >>
            /\ framework' = IF hasFlutterSignature[zip[1]] THEN "Flutter" ELSE "React Native"
      ]_vars

\* the first archive holds both signatures, the second one is never opened
C25_Witness ==
    /\ DetectReturned
    /\ pathsOfApp = << "both", "flutter" >>
    /\ framework = "Flutter"
    /\ zip = << >>

\* C26: every name of the packages mapping of a lockfile that is a mapping
\* of mappings is in the Flutter result, also a name whose entry has no
\* version field; when that entry is the last lockfile entry for the name in
\* scan order the record has version null, whatever version the lockfile of
\* an earlier archive gave.
C26_VersionlessEntryWritten ==
    FlutterReturned =>
        LET paths == opened(pathsOfApp)
        IN  \A i \in DOMAIN paths :
               wellFormedLock[paths[i]] =>
                  \A it \in lockItems[paths[i]] :
                     /\ containsKey(result, it.name)
                     /\ (/\ it.version = NULL
                         /\ \A j \in DOMAIN paths :
                               j > i => it.name \notin lockMentions[paths[j]])
                        => MapGet(result, it.name) = NULL

\* foo: version 2.0.0 in the base archive, no version field in the split
C26_Witness ==
    /\ FlutterReturned
    /\ pathsOfApp = << "lock2", "flutter" >>
    /\ lockVersion("lock2", "foo") = Some("2.0.0")
    /\ lockVersion("flutter", "foo") = NULL
    /\ MapGet(result, "foo") = NULL

\* the entry name is lib/<abi>/libflutter.so
isEngineLibrary(name) ==
    /\ startsWith(name, "lib/")
    /\ endsWith(name, "/libflutter.so")
    /\ Len(name) > Len("lib/") + Len("/libflutter.so")
    /\ \A i \in (Len("lib/") + 1)..(Len(name) - Len("/libflutter.so")) :
          CharAt(name, i) # "/"

\* C27: when the archive that makes an application Flutter does so by an
\* entry lib/<abi>/libflutter.so and the extractor scans it to its end, the
\* Flutter result holds the name flutter and is not empty.
C27_EngineLibraryReported ==
    FlutterReturned =>
        LET paths == opened(pathsOfApp)
            hits  == {i \in DOMAIN paths :
                        hasFlutterSignature[paths[i]] \/ hasReactNativeSignature[paths[i]]}
            first == paths[CHOOSE i \in hits : \A j \in hits : i <= j]
        IN  (/\ \E e \in Range(Disk[first].entries) : isEngineLibrary(e.name)
             /\ ~lockThrows[first])
            => containsKey(result, "flutter") /\ result # << >>

\* an archive with lib/arm/libflutter.so and nothing else a Flutter
\* heuristic finds
C27_Witness ==
    /\ FlutterReturned
    /\ pathsOfApp = << "both" >>
    /\ isEngineLibrary("lib/arm/libflutter.so")
    /\ result = << [key |-> "flutter", value |-> NULL] >>

\* C28: getInstalledApps runs no extractor: while it runs, no statement of
\* an extractor is reached and the accumulators of the extractors stay
\* empty; every record it resolves with has an empty packages array,
\* whatever its label, so that no card of the list shows a package count;
\* a list of packages is only ever the value of a getAppPackages promise.
C28_ListingRunsNoExtractor ==
    /\ caller = "getInstalledApps" =>
          /\ pc \notin FlutterPcs \cup ReactNativePcs \cup {"gap_when"}
          /\ result = << >> /\ sets = NoNames /\ rnResult = << >>
    /\ (promise.method = "getInstalledApps" /\ promise.state = "resolved") =>
          \A r \in Range(promise.value) :
              r.packages = << >> /\ packageCountChip(r) = << >>
    /\ pc \in FlutterPcs \cup ReactNativePcs =>
          caller = "getAppPackages" /\ promise.method = "getAppPackages"

\* a list with a Flutter application that has packages, and none in its record
C28_Witness ==
    /\ promise.method = "getInstalledApps"
    /\ promise.state = "resolved"
    /\ apkPathsOf(installed[1]) = << "flutter" >>
    /\ promise.value[1].framework = "Flutter"
    /\ promise.value[1].packages = << >>
    /\ nameOnlyNames["flutter"] # {}

(***************************************************************************)
(* The JavaScript side: useAppsViewModel and AppsListView, AppDetailView   *)
(* and the bridge wrapper.  A bridge call is issued by a handler, waits in *)
(* ui.calls while the module thread serves the calls before it, and        *)
(* settles when its promise is resolved or rejected; the callbacks of the  *)
(* then and the finally of one chain run in one step, no event of the user *)
(* being handled between two microtasks.                                   *)
(***************************************************************************)
\* bridge calls that wait at most at one time
MaxCalls == 3

\* an AppInfo of models/AppInfo.ts as getInstalledApps resolves it
AppInfo(packageName, label) ==
    [packageName |-> packageName, appName |-> packageName, icon |-> "",
     framework |-> label, packages |-> << >>]

\* the arrays a getInstalledApps promise resolves with in the view layer
InstalledAppsValues ==
    { << >>,
      << AppInfo("com.a", "Flutter") >>,
      << AppInfo("com.b", "React Native"), AppInfo("com.a", "Flutter") >> }

\* the arrays a getAppPackages promise resolves with in the view layer, in
\* the order of discovery; the names are made of lower-case letters, which
\* localeCompare orders as their code units do
AppPackagesValues ==
    { << >>,
      << DetectedPackage("provider", Some("6.0.5")) >>,
      << DetectedPackage("path", NULL), DetectedPackage("http", Some("1.1.0")),
         DetectedPackage("intl", NULL) >> }

\* pkgs with pkg put before the first element that comes after it by name
insertByName(pkg, pkgs) ==
    LET later == {i \in DOMAIN pkgs : ~notAfter(pkgs[i].name, pkg.name)}
    IN  IF later = {}
        THEN Append(pkgs, pkg)
        ELSE LET at == CHOOSE i \in later : \A j \in later : i <= j
             IN  SubSeq(pkgs, 1, at - 1) \o << pkg >> \o SubSeq(pkgs, at, Len(pkgs))

RECURSIVE sortByName(_)
\* pkgs.slice().sort((a, b) => a.name.localeCompare(b.name))
sortByName(pkgs) ==
    IF pkgs = << >>
    THEN << >>
    ELSE insertByName(pkgs[Len(pkgs)], sortByName(SubSeq(pkgs, 1, Len(pkgs) - 1)))

\* a call handed to the bridge: its method and argument, the handler that
\* issued it, and whether the component that issued it is still mounted
BridgeCall(method, arg, origin) ==
    [method |-> method, arg |-> arg, origin |-> origin, live |-> TRUE]

\* the calls of a handler that wait and whose component is mounted
inFlight(origin) == {i \in DOMAIN ui.calls : ui.calls[i].origin = origin /\ ui.calls[i].live}

\* the module of the Kotlin side is left as it is by the JavaScript side
nativeIdle ==
    UNCHANGED << installed, pc, caller, promise, apps, app, framework, apkPaths,
                 pathIdx, zip, result, sets, rnResult, hist >>

\* the navigator renders its initial route: the state of useAppsViewModel is
\* created and the mount effect runs loadApps
MountAppsList ==
    /\ ~ui.list.mounted
    /\ Len(ui.calls) < MaxCalls
    /\ ui' = [ui EXCEPT !.list.mounted = TRUE,
                        !.list.loading = TRUE,
                        !.calls = Append(@, BridgeCall("getInstalledApps", "", "loadApps"))]
    /\ nativeIdle

\* the refresh controls rendered whatever loading is
ListRefreshWhileLoading ==
    /\ ui.list.mounted
    /\ ~ui.detail.mounted
    /\ Len(ui.calls) < MaxCalls
    /\ ui' = [ui EXCEPT !.list.refreshing = TRUE,
                        !.list.loading = TRUE,
                        !.calls = Append(@, BridgeCall("getInstalledApps", "", "loadApps"))]
    /\ nativeIdle

\* a refresh control of the list is used: the pull of the SectionList or the
\* button of the empty state, neither of which is rendered while loading
ListRefresh ==
    /\ ui.list.mounted
    /\ ~ui.detail.mounted
    /\ ~ui.list.loading
    /\ ~ui.list.refreshing
    /\ Len(ui.calls) < MaxCalls
    /\ ui' = [ui EXCEPT !.list.refreshing = TRUE,
                        !.list.loading = TRUE,
                        !.calls = Append(@, BridgeCall("getInstalledApps", "", "loadApps"))]
    /\ nativeIdle

\* a card of the list is pressed: AppDetailView is mounted with fresh state
\* and its effect runs fetchPackages
OpenDetail(item) ==
    /\ ui.list.mounted
    /\ ~ui.detail.mounted
    /\ ~ui.list.loading
    /\ Len(ui.calls) < MaxCalls
    /\ ui' = [ui EXCEPT !.detail = [mounted |-> TRUE, app |-> item.packageName,
                                    packages |-> << >>, loading |-> TRUE,
                                    refreshing |-> FALSE],
                        !.calls = Append(@, BridgeCall("getAppPackages",
                                                       item.packageName, "fetchPackages"))]
    /\ nativeIdle

\* the list of the detail screen is pulled
DetailRefresh ==
    /\ ui.detail.mounted
    /\ ~ui.detail.refreshing
    /\ Len(ui.calls) < MaxCalls
    /\ ui' = [ui EXCEPT !.detail.refreshing = TRUE,
                        !.calls = Append(@, BridgeCall("getAppPackages",
                                                       ui.detail.app, "onRefresh"))]
    /\ nativeIdle

\* navigation.goBack(): the detail screen is unmounted, the calls it issued
\* go on and their callbacks set the state of no mounted component
GoBack ==
    /\ ui.detail.mounted
    /\ ui' = [ui EXCEPT !.detail = NoView.detail,
                        !.calls = [i \in DOMAIN @ |->
                                     IF @[i].method = "getAppPackages"
                                     THEN [@[i] EXCEPT !.live = FALSE]
                                     ELSE @[i]]]
    /\ nativeIdle

\* the state after the then callback of a call has run with value
thenState(call, value) ==
    CASE ~call.live                    -> ui
      [] call.origin = "loadApps"      -> [ui EXCEPT !.list.apps = value]
      [] OTHER                         -> [ui EXCEPT !.detail.packages = sortByName(value)]

\* view with the finally callbacks of a call run
finallyState(call, view) ==
    CASE ~call.live                    -> view
      [] call.origin = "loadApps"      -> [view EXCEPT !.list.loading = FALSE,
                                                       !.list.refreshing = FALSE]
      [] call.origin = "fetchPackages" -> [view EXCEPT !.detail.loading = FALSE]
      [] OTHER                         -> [view EXCEPT !.detail.refreshing = FALSE]

\* the values the method of a call resolves with
valuesOf(call) ==
    IF call.method = "getInstalledApps" THEN InstalledAppsValues ELSE AppPackagesValues

\* the promise of the oldest call is resolved: then, and finally
SettleResolve ==
    /\ ui.calls # << >>
    /\ LET call == Head(ui.calls)
       IN  \E value \in valuesOf(call) :
              ui' = [finallyState(call, thenState(call, value)) EXCEPT
                        !.calls = Tail(@),
                        !.settled = [origin |-> call.origin, outcome |-> "resolved",
                                     live |-> call.live]]
    /\ nativeIdle

\* the finally written as a second then: skipped by a rejection
SettleRejectSkipsFinally ==
    /\ ui.calls # << >>
    /\ LET call == Head(ui.calls)
       IN  ui' = [ui EXCEPT
                     !.calls = Tail(@),
                     !.settled = [origin |-> call.origin, outcome |-> "rejected",
                                  live |-> call.live]]
    /\ nativeIdle

\* the promise of the oldest call is rejected: the then is skipped, the
\* finally runs
SettleReject ==
    /\ ui.calls # << >>
    /\ LET call == Head(ui.calls)
       IN  ui' = [finallyState(call, ui) EXCEPT
                     !.calls = Tail(@),
                     !.settled = [origin |-> call.origin, outcome |-> "rejected",
                                  live |-> call.live]]
    /\ nativeIdle

\* the cards the list renders
cardsOf(view) == Range(view.list.apps)

NextView ==
    \/ MountAppsList
    \/ ListRefresh
    \/ \E item \in cardsOf(ui) : OpenDetail(item)
    \/ DetailRefresh
    \/ GoBack
    \/ SettleResolve
    \/ SettleReject

\* the application before any screen is rendered, the module idle on one
\* device; what the module does with a call is left to Next, here a call
\* settles with one of the values above or is rejected
InitView ==
    /\ installed = CHOOSE device \in Devices : Len(device) = MaxApps
    /\ Constructed
    /\ hist = [track |-> FALSE, label |-> "", last |-> NoCall]
    /\ ui = NoView

SpecView == InitView /\ [][NextView]_vars

\* the packages of the detail screen are the last resolved value, by name
ViewTypeOK ==
    /\ Len(ui.calls) <= MaxCalls
    /\ ui.detail.packages \in {sortByName(value) : value \in AppPackagesValues}
    /\ ui.list.apps \in InstalledAppsValues

\* a busy flag of a mounted screen is set only while a call of its handler
\* waits
flagsQuiet ==
    /\ (ui.list.mounted /\ inFlight("loadApps") = {}) => ~ui.list.loading
    /\ (ui.detail.mounted /\ inFlight("fetchPackages") = {}) => ~ui.detail.loading
    /\ (ui.detail.mounted /\ inFlight("onRefresh") = {}) => ~ui.detail.refreshing

\* a step that settles the call of a handler of a mounted screen clears the
\* flag of the handler; when the call is rejected the lists are kept
settleClearsFlag ==
    (Len(ui'.calls) < Len(ui.calls) /\ Head(ui.calls).live) =>
        /\ ui'.settled.origin = Head(ui.calls).origin
        /\ ui'.settled.outcome \in {"resolved", "rejected"}
        /\ Head(ui.calls).origin = "loadApps" => ~ui'.list.loading
        /\ Head(ui.calls).origin = "fetchPackages" => ~ui'.detail.loading
        /\ Head(ui.calls).origin = "onRefresh" => ~ui'.detail.refreshing
        /\ ui'.settled.outcome = "rejected" =>
              /\ ui'.list.apps = ui.list.apps
              /\ ui'.detail.packages = ui.detail.packages

\* C29: every load the view layer starts clears its busy flag when its
\* native call settles, resolved or rejected: loading of the view model
\* after loadApps, loading of the detail screen after fetchPackages,
\* refreshing of the detail screen after onRefresh; a rejected call leaves
\* the apps and the packages held before as they were.
C29_BusyFlagCleared == [](flagsQuiet) /\ [][settleClearsFlag]_vars

\* a refresh of the detail screen was rejected: refreshing is cleared and
\* the sorted packages of the fetch before it are still shown
C29_Witness ==
    /\ ui.settled = [origin |-> "onRefresh", outcome |-> "rejected", live |-> TRUE]
    /\ ui.detail.mounted
    /\ ~ui.detail.refreshing
    /\ ~ui.detail.loading
    /\ namesOf(ui.detail.packages) = << "http", "intl", "path" >>

\* the getInstalledApps calls that wait
listRequests == {i \in DOMAIN ui.calls : ui.calls[i].method = "getInstalledApps"}

\* C30: in the list screen at most one getInstalledApps request waits at
\* any time and loading is true exactly while one waits, the refresh
\* controls not being rendered while loading is true: no response settles
\* while a newer request waits, so none overwrites the apps of a newer
\* request or clears the loading flag of a request that still waits.
C30_OneRequestInFlight ==
    /\ Cardinality(listRequests) <= 1
    /\ ui.list.mounted => (ui.list.loading <=> listRequests # {})
    /\ ui.list.refreshing => ui.list.loading

\* a refresh waits after the request of the mount effect has resolved
C30_Witness ==
    /\ ui.list.mounted
    /\ ui.list.refreshing
    /\ ui.list.loading
    /\ ui.list.apps # << >>
    /\ ui.settled.origin = "loadApps"
    /\ Cardinality(listRequests) = 1

=============================================================================
